---- MODULE Spec2Model ----
(***************************************************************************)
(* Model of vale::variant_impl (the tagged union of Vale-Structs) and of   *)
(* the object lifetimes inside its inline buffer.                          *)
(*                                                                         *)
(* A variant_impl<DestructionPolicy, NonThreadSafe, First, Rest...> is a   *)
(* raw buffer plus a uint16_t tag `type`.  The model keeps, next to the    *)
(* tag, what the C++ abstract machine knows about the buffer: which object *)
(* (if any) was last constructed there and whether its lifetime has ended. *)
(* Every payload constructor, destructor, accessor and formatting thunk    *)
(* the code runs is logged in `last.calls`, with the object it touched.    *)
(***************************************************************************)
EXTENDS Integers, Sequences, FiniteSets, TLC

\* ------------------------------------------------------------------ bounds
\* Payload values are 0..MaxVal.
MaxVal == 1

Values == 0..MaxVal

\* The arrays of the client program have NbElem elements (nb_elem).
NbElem == 3

\* size_t is SizeBits wide: its values are 0..SizeMax - 1 and its arithmetic
\* wraps modulo SizeMax.
SizeBits == 4

SizeMax == 2 ^ SizeBits

\* Type packs of up to MaxTypes types are instantiated.
MaxTypes == 20

\* The variant objects of the client program.
Variants == {"a", "b"}

\* The thread-safe arrays of the client program.
Arrays == {"x", "y"}

\* The threads of the client program.
Threads == {"t1", "t2"}

\* The thread of main().
Main == "t1"

\* ------------------------------------------------------- client type packs
\* The instantiations variant_impl<DestructionPolicy, NonThreadSafe, First, Rest...>
\* the client program may choose: a pack mixing a fundamental type with class
\* types (helper: throwing constructor, noexcept move; widget: nothing noexcept)
\* under the automatic and the forced constant policy, and a pack of
\* fundamental types only.
Instantiations ==
    { [types |-> <<"int", "helper", "widget">>, policy |-> "AutoComplexityDestruct"],
      [types |-> <<"int", "helper", "widget">>, policy |-> "ConstantComplexityDestruct"],
      [types |-> <<"int", "float">>,            policy |-> "AutoComplexityDestruct"] }

\* std::is_fundamental_v<T>
is_fundamental(T) == T \in {"int", "float"}
\* std::is_nothrow_constructible_v<T, Args...> for a value or no argument
is_nothrow_constructible(T) == T \in {"int", "float"}
\* std::is_nothrow_constructible_v<T, T> (construction from an rvalue T)
is_nothrow_move_constructible(T) == T \in {"int", "float", "helper"}
\* std::is_nothrow_copy_constructible_v<T>
is_nothrow_copy_constructible(T) == T \in {"int", "float"}

\* ------------------------------------------------------------------- state
VARIABLES
    types,      \* the pack First, Rest... (fixed at instantiation)
    policy,     \* the DestructionPolicy (fixed at instantiation)
    status,     \* per variant object: "unborn", "alive" or "destroyed"
    type,       \* per variant: the member `uint16_t type`
    buffer,     \* per variant: the object last constructed in `char buffer[]`
    threw,      \* whether some payload construction inside construct<T> threw
    leaked,     \* whether a live object with a destructor lost its storage
    last,       \* the last operation: its inputs, outcome and thunk calls
    mutex,      \* per thread-safe container: the thread owning its std::mutex
    pc,         \* per thread: the operation it is in and how far it has come
    arr         \* per array: the member `T buffer[nb_elem]` (<<>>: not declared)

vars == <<types, policy, status, type, buffer, threw, leaked, last, mutex, pc, arr>>

\* The object a buffer holds: obj tells whether an object was ever constructed
\* there, ty and val are its type tag and value, live whether its lifetime is
\* running, dtors how many times its destructor ran (0, 1, or 2 for "more").
EmptyBuffer == [obj |-> FALSE, ty |-> 0, val |-> 0, live |-> FALSE, dtors |-> 0]

\* ------------------------------------------------------- static helpers
\* details::recurse_type_pack<conditions...>::value : position of the first true
RECURSIVE recurse_type_pack(_)
recurse_type_pack(conditions) ==
    IF Head(conditions) THEN 0 ELSE 1 + recurse_type_pack(Tail(conditions))

\* helpers::get_index_of_type_from_pack_v<T, First, Rest...>
get_index_of_type_from_pack(T) ==
    recurse_type_pack([i \in 1..Len(types) |-> types[i] = T])

\* sizeof...(Rest)
max_active_index == Len(types) - 1

\* sizeof...(Rest) + 1
invalid_index == max_active_index + 1

\* helpers::count_fundamental_v<First, Rest...>
count_fundamental == Cardinality({i \in 1..Len(types) : is_fundamental(types[i])})

\* helpers::count_non_fundamental_v<First, Rest...>
count_non_fundamental == Cardinality({i \in 1..Len(types) : ~is_fundamental(types[i])})

can_be_invalid == max_active_index + 1 # count_fundamental

destructor_complexity ==
    IF policy = "AutoComplexityDestruct"
    THEN IF count_non_fundamental > ((max_active_index + 1) * 9) \div 10
         THEN "constant_complexity"
         ELSE "linear_complexity"
    ELSE IF policy = "ConstantComplexityDestruct"
         THEN "constant_complexity"
         ELSE "linear_complexity"

\* The type at tag t of the pack (tags are 0-based).
TypeAt(t) == types[t + 1]



\* --------------------------------------------------- the abstract machine
\* The part of the state an operation works on, with the thunk calls it has
\* made so far and the exception (if any) that is propagating.
Cur ==
    [type |-> type, buffer |-> buffer, threw |-> threw, leaked |-> leaked,
     calls |-> <<>>, exc |-> "none"]

\* A thunk of kind k for the type at tag t ran on the buffer of variant v;
\* ok tells whether that was a legal use of the buffer.
Call(k, t, v, ok) == [k |-> k, t |-> t, v |-> v, ok |-> ok]

\* A buffer holds a live object whose destructor is not trivial.
HoldsLiveNonTrivial(b) == b.live /\ ~is_fundamental(TypeAt(b.ty))

\* new(buffer) T() : the arguments are not forwarded to the constructor.
placement_new_no_args(M, v, t, val, kind, srcok) ==
    LET b == M.buffer[v]
    IN  [M EXCEPT !.buffer[v] = [obj |-> TRUE, ty |-> t, val |-> 0,
                                 live |-> TRUE, dtors |-> 0],
                  !.leaked = @ \/ HoldsLiveNonTrivial(b),
                  !.calls = Append(@, Call(kind, t, v,
                                           srcok /\ ~HoldsLiveNonTrivial(b)))]

\* new(buffer) T(...): a new object of the type at tag t, value val, begins
\* its lifetime in the buffer of v (kind: "ctor", "copy" or "move"); an object
\* still alive there loses its storage without its destructor having run.
placement_new(M, v, t, val, kind, srcok) ==
    LET b == M.buffer[v]
    IN  [M EXCEPT !.buffer[v] = [obj |-> TRUE, ty |-> t, val |-> val,
                                 live |-> TRUE, dtors |-> 0],
                  !.leaked = @ \/ HoldsLiveNonTrivial(b),
                  !.calls = Append(@, Call(kind, t, v,
                                           srcok /\ ~HoldsLiveNonTrivial(b)))]

\* operator[] accepting index == nb_elem (<= in place of <).
array_subscript_inclusive(nb_elem, index) ==
    IF index <= nb_elem THEN "ok" ELSE "out_of_range"

\* vale::array<T, nb_elem>::operator[] : the bounds check, of the arrays of the
\* client and of the dispatch tables
array_subscript(nb_elem, index) ==
    IF index < nb_elem THEN "ok" ELSE "out_of_range"

is_valid(M, v) == M.type[v] # max_active_index + 1

\* set_invalid_state with the sentinel one past sizeof...(Rest) + 1.
set_invalid_state_past_sentinel(M, v) == [M EXCEPT !.type[v] = max_active_index + 2]

set_invalid_state(M, v) == [M EXCEPT !.type[v] = max_active_index + 1]

\* construct<T> without the try/catch: the exception leaves the tag of T behind.
construct_no_catch(M, v, T, val, nothrow, throws) ==
    LET t  == recurse_type_pack([i \in 1..Len(types) |-> types[i] = T])
        M1 == [M EXCEPT !.type[v] = t]
    IN  IF ~nothrow /\ throws
        THEN [M1 EXCEPT !.exc = "ctor", !.threw = TRUE]
        ELSE [M1 EXCEPT !.buffer[v] = [obj |-> TRUE, ty |-> t, val |-> val,
                                       live |-> TRUE, dtors |-> 0],
                        !.leaked = @ \/ HoldsLiveNonTrivial(M.buffer[v]),
                        !.calls = Append(@, Call("ctor", t, v,
                                                 ~HoldsLiveNonTrivial(M.buffer[v])))]

\* construct<T>(args...): nothrow is std::is_nothrow_constructible_v<T, Args...>,
\* throws tells whether T's constructor throws on these arguments.
construct(M, v, T, val, nothrow, throws) ==
    LET t  == get_index_of_type_from_pack(T)
        M1 == [M EXCEPT !.type[v] = t]
    IN  IF nothrow
        THEN placement_new(M1, v, t, val, "ctor", TRUE)
        ELSE IF throws
             THEN [set_invalid_state(M1, v) EXCEPT !.exc = "ctor", !.threw = TRUE]
             ELSE placement_new(M1, v, t, val, "ctor", TRUE)

\* helpers::destruct_active_delete_ptr<T>(buffer), T the type at tag t
destruct_active_delete_ptr(M, v, t) ==
    LET b == M.buffer[v]
    IN  [M EXCEPT !.buffer[v] = [b EXCEPT !.live = FALSE, !.val = 0,
                                          !.dtors = IF b.obj /\ @ < 2 THEN @ + 1 ELSE @],
                  !.calls = Append(@, Call("dtor", t, v, b.live /\ b.ty = t))]

\* impl_destruct_active_linear<index_t, FirstT, RestT...>()
RECURSIVE impl_destruct_active_linear(_, _, _)
impl_destruct_active_linear(M, v, index_t) ==
    IF index_t > max_active_index
    THEN M
    ELSE IF index_t = M.type[v]
         THEN destruct_active_delete_ptr(M, v, index_t)
         ELSE impl_destruct_active_linear(M, v, index_t + 1)

\* A constant-time destruction that always takes the first entry: dt[0](buffer).
impl_destruct_active_constant_first(M, v) ==
    IF array_subscript(Len(types), M.type[v]) = "ok"
    THEN destruct_active_delete_ptr(M, v, 0)
    ELSE [M EXCEPT !.exc = "out_of_range"]

\* impl_destruct_active_constant(): dt[type](buffer)
impl_destruct_active_constant(M, v) ==
    IF array_subscript(Len(types), M.type[v]) = "ok"
    THEN destruct_active_delete_ptr(M, v, M.type[v])
    ELSE [M EXCEPT !.exc = "out_of_range"]

\* A dispatch that always runs the destructor thunk of the first type.
impl_destruct_dispatch_first(M, v) ==
    LET b == M.buffer[v]
    IN  [M EXCEPT !.buffer[v] = [b EXCEPT !.live = FALSE, !.val = 0,
                                          !.dtors = IF b.obj /\ @ < 2 THEN @ + 1 ELSE @],
                  !.calls = Append(@, Call("dtor", 0, v, b.live /\ b.ty = 0))]

impl_destruct_dispatch(M, v) ==
    IF destructor_complexity = "constant_complexity"
    THEN impl_destruct_active_constant(M, v)
    ELSE impl_destruct_active_linear(M, v, 0)

\* destruct_active skipping destruction as soon as one type is fundamental
\* (std::disjunction_v in place of std::conjunction_v).
destruct_active_any_fundamental(M, v) ==
    IF \E i \in 1..Len(types) : is_fundamental(types[i])
    THEN M
    ELSE IF can_be_invalid
         THEN IF is_valid(M, v) THEN impl_destruct_dispatch(M, v) ELSE M
         ELSE impl_destruct_dispatch(M, v)

\* destruct_active without the is_valid() check.
destruct_active_unchecked(M, v) ==
    IF \A i \in 1..Len(types) : is_fundamental(types[i])
    THEN M
    ELSE impl_destruct_dispatch(M, v)

destruct_active(M, v) ==
    IF \A i \in 1..Len(types) : is_fundamental(types[i])
    THEN M
    ELSE IF can_be_invalid
         THEN IF is_valid(M, v) THEN impl_destruct_dispatch(M, v) ELSE M
         ELSE impl_destruct_dispatch(M, v)

\* helpers::copy_construct_ptr<T>(from, to) through dt[type] of the target:
\* throws tells whether T's copy constructor throws, uval is the value read
\* when the source buffer holds no live object (an indeterminate read).
impl_copy_variant_content(M, v, from, throws, uval) ==
    LET t == M.type[v]
        s == M.buffer[from]
    IN  IF array_subscript(Len(types), t) # "ok"
        THEN [M EXCEPT !.exc = "out_of_range"]
        ELSE IF throws
             THEN [M EXCEPT !.exc = "ctor"]
             ELSE placement_new(M, v, t, IF s.live THEN s.val ELSE uval,
                                "copy", s.live /\ s.ty = t)

\* A move that marks the moved-from union invalid.
impl_move_variant_content_invalidating(M, v, from, throws, uval, mval) ==
    LET t == M.type[v]
        s == M.buffer[from]
    IN  IF array_subscript(Len(types), t) # "ok"
        THEN [M EXCEPT !.exc = "out_of_range"]
        ELSE IF throws
             THEN [M EXCEPT !.exc = "ctor"]
             ELSE LET M1 == placement_new(M, v, t, IF s.live THEN s.val ELSE uval,
                                          "move", s.live /\ s.ty = t)
                  IN  [M1 EXCEPT !.type[from] = max_active_index + 1]

\* helpers::move_construct_ptr<T>(from, to) through dt[type] of the target:
\* mval is the value the moved-from object is left with.
impl_move_variant_content(M, v, from, throws, uval, mval) ==
    LET t == M.type[v]
        s == M.buffer[from]
    IN  IF array_subscript(Len(types), t) # "ok"
        THEN [M EXCEPT !.exc = "out_of_range"]
        ELSE IF throws
             THEN [M EXCEPT !.exc = "ctor"]
             ELSE LET M1 == placement_new(M, v, t, IF s.live THEN s.val ELSE uval,
                                          "move", s.live /\ s.ty = t)
                  IN  IF from # v /\ HoldsLiveNonTrivial(s)
                      THEN [M1 EXCEPT !.buffer[from].val = mval]
                      ELSE M1

\* The payload copy of the copy constructor and copy assignment.
copy_payload(M, v, src, throws, uval) ==
    IF can_be_invalid
    THEN IF is_valid(M, src)
         THEN impl_copy_variant_content(M, v, src, throws, uval)
         ELSE M
    ELSE impl_copy_variant_content(M, v, src, throws, uval)

\* The payload move of the move constructor and move assignment.
move_payload(M, v, src, throws, uval, mval) ==
    IF can_be_invalid
    THEN IF is_valid(M, src)
         THEN impl_move_variant_content(M, v, src, throws, uval, mval)
         ELSE M
    ELSE impl_move_variant_content(M, v, src, throws, uval, mval)

\* ---------------------------------------------------------------- actions
\* Sequencing: N is what the next statement makes of M, unless an exception
\* is already propagating out of the operation.
Then(M, N) == IF M.exc # "none" THEN M ELSE N

\* Writes the machine state back and records the operation.
Record(M, op, v, t, arg, throws, ret) ==
    /\ type' = M.type
    /\ buffer' = M.buffer
    /\ threw' = M.threw
    /\ leaked' = M.leaked
    /\ last' = [op |-> op, v |-> v, t |-> t, arg |-> arg, throws |-> throws,
                out |-> M.exc, ret |-> ret, calls |-> M.calls]
    /\ UNCHANGED <<types, policy>>

\* An operation of a single-threaded client: no thread-safe container is touched.
Commit(M, op, v, t, arg, throws, ret) ==
    /\ Record(M, op, v, t, arg, throws, ret)
    /\ UNCHANGED <<mutex, pc, arr>>

\* The value recorded where an operation takes no argument or returns nothing.
NoRet == 0 - 1

\* A thread outside every operation.
IdlePc ==
    [at |-> "idle", op |-> "none", obj |-> "none", other |-> "none",
     arg |-> NoRet, val |-> NoRet,
     i |-> 0, throws |-> FALSE, out |-> "none", ret |-> NoRet, seen |-> <<>>]

\* No operation recorded yet.
NoLast ==
    [op |-> "none", v |-> "a", t |-> 0, arg |-> NoRet, throws |-> FALSE,
     out |-> "none", ret |-> NoRet, calls |-> <<>>]

Init ==
    /\ \E inst \in Instantiations :
         /\ types = inst.types
         /\ policy = inst.policy
    /\ status = [v \in Variants |-> "unborn"]
    /\ type = [v \in Variants |-> 0]
    /\ buffer = [v \in Variants |-> EmptyBuffer]
    /\ threw = FALSE
    /\ leaked = FALSE
    /\ last = NoLast
    /\ mutex = [c \in Variants \cup Arrays |-> "free"]
    /\ pc = [t \in Threads |-> IdlePc]
    /\ arr = [x \in Arrays |-> <<>>]

PackTypes == {types[i] : i \in 1..Len(types)}

\* The client declares a before b, and b in an inner scope: b is constructed
\* while a is alive and destroyed before a.
MayConstruct(v) == status[v] = "unborn" /\ (v = "b" => status["a"] = "alive")
MayDestroy(v) == status[v] = "alive" /\ (v = "a" => status["b"] # "alive")

\* Whether the constructor may throw: never when it is nothrow.
MayThrow(nothrow) == IF nothrow THEN {FALSE} ELSE BOOLEAN

\* The values an indeterminate read may give: none when the object is alive.
Indeterminate(b) == IF b.live THEN {0} ELSE Values

\* variant_impl(): default construct the first type
DefaultConstruct(v) ==
    /\ MayConstruct(v)
    /\ \E throws \in MayThrow(is_nothrow_constructible(types[1])) :
         LET M == construct(Cur, v, types[1], 0,
                            is_nothrow_constructible(types[1]), throws)
         IN  /\ Commit(M, "DefaultConstruct", v, 0, NoRet, throws, NoRet)
             /\ status' = [status EXCEPT ![v] = IF M.exc = "none" THEN "alive" ELSE @]

\* variant_impl(T&& object)
ConvertConstruct(v) ==
    /\ MayConstruct(v)
    /\ \E T \in PackTypes, val \in Values :
         \E throws \in MayThrow(is_nothrow_move_constructible(T)) :
           LET M == construct(Cur, v, T, val, is_nothrow_move_constructible(T), throws)
           IN  /\ Commit(M, "ConvertConstruct", v, get_index_of_type_from_pack(T),
                         val, throws, NoRet)
               /\ status' = [status EXCEPT ![v] = IF M.exc = "none" THEN "alive" ELSE @]

\* ~variant_impl(): the buffer goes away with the union
Destroy(v) ==
    /\ MayDestroy(v)
    /\ LET M == destruct_active(Cur, v)
       IN  Commit([M EXCEPT !.leaked = @ \/ HoldsLiveNonTrivial(M.buffer[v])],
                  "Destroy", v, 0, NoRet, FALSE, NoRet)
    /\ status' = [status EXCEPT ![v] = "destroyed"]

\* operator=(T&& object)
Assign(v) ==
    /\ status[v] = "alive"
    /\ \E T \in PackTypes, val \in Values :
         \E throws \in MayThrow(is_nothrow_move_constructible(T)) :
           LET M1 == destruct_active(Cur, v)
               M2 == Then(M1, construct(M1, v, T, val,
                                        is_nothrow_move_constructible(T), throws))
           IN  Commit(M2, "Assign", v, get_index_of_type_from_pack(T), val, throws, NoRet)
    /\ UNCHANGED status

\* emplace<T>(args...)
Emplace(v) ==
    /\ status[v] = "alive"
    /\ \E T \in PackTypes, val \in Values :
         \E throws \in MayThrow(is_nothrow_constructible(T)) :
           LET M1 == destruct_active(Cur, v)
               M2 == Then(M1, construct(M1, v, T, val,
                                        is_nothrow_constructible(T), throws))
           IN  Commit(M2, "Emplace", v, get_index_of_type_from_pack(T), val, throws, NoRet)
    /\ UNCHANGED status

\* get<T>() without the tag check.
get_unchecked(M, v, T) ==
    LET t == get_index_of_type_from_pack(T)
        b == M.buffer[v]
    IN  [exc |-> "none", vals |-> IF b.live THEN {b.val} ELSE Values,
         calls |-> <<Call("get", t, v, b.live /\ b.ty = t)>>]

\* get<T>(): a reference to the buffer as a T (vals: the values a read through
\* it may give), or bad_variant_access
get(M, v, T) ==
    LET t == get_index_of_type_from_pack(T)
        b == M.buffer[v]
    IN  IF M.type[v] = t
        THEN [exc |-> "none", vals |-> IF b.live THEN {b.val} ELSE Values,
              calls |-> <<Call("get", t, v, b.live /\ b.ty = t)>>]
        ELSE [exc |-> "bad_variant_access", vals |-> {NoRet}, calls |-> <<>>]

Get(v) ==
    /\ status[v] = "alive"
    /\ \E T \in PackTypes :
         LET r == get(Cur, v, T)
         IN  \E rval \in r.vals :
               Commit([Cur EXCEPT !.exc = r.exc, !.calls = r.calls],
                      "Get", v, get_index_of_type_from_pack(T), NoRet, FALSE, rval)
    /\ UNCHANGED status

\* holds_active_type<T>() answering for any valid union.
holds_active_type_any_valid(M, v, T) == is_valid(M, v)

\* holds_active_type<T>()
holds_active_type(M, v, T) == M.type[v] = get_index_of_type_from_pack(T)

\* index()
Index(v) ==
    /\ status[v] = "alive"
    /\ Commit(Cur, "Index", v, 0, NoRet, FALSE, type[v])
    /\ UNCHANGED status

\* is_valid()
IsValid(v) ==
    /\ status[v] = "alive"
    /\ Commit(Cur, "IsValid", v, 0, NoRet, FALSE, is_valid(Cur, v))
    /\ UNCHANGED status

HoldsActiveType(v) ==
    /\ status[v] = "alive"
    /\ \E T \in PackTypes :
         Commit(Cur, "HoldsActiveType", v, get_index_of_type_from_pack(T), NoRet,
                FALSE, holds_active_type(Cur, v, T))
    /\ UNCHANGED status

\* helpers::print_variant_ptr<T>(os, buffer) through dt[type]
print_dispatch(M, v) ==
    LET b == M.buffer[v]
    IN  IF array_subscript(Len(types), M.type[v]) = "ok"
        THEN [M EXCEPT !.calls = Append(@, Call("print", M.type[v], v,
                                                b.live /\ b.ty = M.type[v]))]
        ELSE [M EXCEPT !.exc = "out_of_range"]

\* print(os) without the is_valid() check.
print_unchecked(M, v) == print_dispatch(M, v)

\* print(os)
print(M, v) ==
    IF can_be_invalid
    THEN IF is_valid(M, v)
         THEN print_dispatch(M, v)
         ELSE [M EXCEPT !.exc = "invalid_variant_access"]
    ELSE print_dispatch(M, v)

\* operator<<(os, var): the text written is the active value as formatted by
\* its type's thunk, modelled as the pair <<type name, value>>
StreamInsert(v) ==
    /\ status[v] = "alive"
    /\ LET M == print(Cur, v)
           b == buffer[v]
       IN  IF M.exc = "none"
           THEN \E rval \in (IF b.live THEN {b.val} ELSE Values) :
                  Commit(M, "print", v, 0, NoRet, FALSE, <<TypeAt(M.calls[1].t), rval>>)
           ELSE Commit(M, "print", v, 0, NoRet, FALSE, NoRet)
    /\ UNCHANGED status

\* Whether the payload constructor a copy or move from src would run is nothrow
\* (no payload constructor runs for an invalid source).
SrcNothrow(src, move) ==
    IF type[src] < Len(types)
    THEN IF move THEN is_nothrow_move_constructible(TypeAt(type[src]))
                 ELSE is_nothrow_copy_constructible(TypeAt(type[src]))
    ELSE TRUE

\* The values a moved-from object may be left with.
MovedFrom(M, v, src) ==
    IF src # v /\ M.type[src] < Len(types) /\ HoldsLiveNonTrivial(M.buffer[src])
    THEN Values ELSE {0}

\* variant_impl(const variant_impl& to_copy)
CopyConstruct(v) ==
    /\ MayConstruct(v)
    /\ \E src \in Variants \ {v} :
         /\ status[src] = "alive"
         /\ \E throws \in MayThrow(SrcNothrow(src, FALSE)),
               uval \in Indeterminate(buffer[src]) :
              LET M1 == [Cur EXCEPT !.type[v] = type[src]]
                  M2 == copy_payload(M1, v, src, throws, uval)
              IN  /\ Commit(M2, "CopyConstruct", v, type[src], src, throws, NoRet)
                  /\ status' = [status EXCEPT ![v] =
                                    IF M2.exc = "none" THEN "alive" ELSE @]

\* variant_impl(variant_impl&& to_move)
MoveConstruct(v) ==
    /\ MayConstruct(v)
    /\ \E src \in Variants \ {v} :
         /\ status[src] = "alive"
         /\ \E throws \in MayThrow(SrcNothrow(src, TRUE)),
               uval \in Indeterminate(buffer[src]),
               mval \in MovedFrom(Cur, v, src) :
              LET M1 == [Cur EXCEPT !.type[v] = type[src]]
                  M2 == move_payload(M1, v, src, throws, uval, mval)
              IN  /\ Commit(M2, "MoveConstruct", v, type[src], src, throws, NoRet)
                  /\ status' = [status EXCEPT ![v] =
                                    IF M2.exc = "none" THEN "alive" ELSE @]

\* operator=(const variant_impl& to_copy); to_copy may be *this
CopyAssign(v) ==
    /\ status[v] = "alive"
    /\ \E src \in Variants :
         /\ status[src] = "alive"
         /\ LET M1 == destruct_active(Cur, v)
                M2 == [M1 EXCEPT !.type[v] = M1.type[src]]
            IN  \E throws \in MayThrow(SrcNothrow(src, FALSE)),
                   uval \in Indeterminate(M1.buffer[src]) :
                  Commit(Then(M1, copy_payload(M2, v, src, throws, uval)),
                         "CopyAssign", v, type[src], src, throws, NoRet)
    /\ UNCHANGED status

\* operator=(variant_impl&& to_move); to_move may be *this
MoveAssign(v) ==
    /\ status[v] = "alive"
    /\ \E src \in Variants :
         /\ status[src] = "alive"
         /\ LET M1 == destruct_active(Cur, v)
                M2 == [M1 EXCEPT !.type[v] = M1.type[src]]
            IN  \E throws \in MayThrow(SrcNothrow(src, TRUE)),
                   uval \in Indeterminate(M1.buffer[src]),
                   mval \in MovedFrom(M1, v, src) :
                  Commit(Then(M1, move_payload(M2, v, src, throws, uval, mval)),
                         "MoveAssign", v, type[src], src, throws, NoRet)
    /\ UNCHANGED status

\* The operations of one bare union, a: construction from a value, value
\* assignment, emplace, the queries and destruction.
Next ==
    \/ DefaultConstruct("a")
    \/ ConvertConstruct("a")
    \/ Destroy("a")
    \/ Assign("a")
    \/ Emplace("a")
    \/ Get("a")
    \/ Index("a")
    \/ IsValid("a")
    \/ HoldsActiveType("a")
    \/ StreamInsert("a")

Spec == Init /\ [][Next]_vars

\* Two unions a and b of one instantiation, with the operations that create,
\* replace, copy, move and destroy payloads.
NextCopy ==
    \E v \in Variants :
        \/ DefaultConstruct(v)
        \/ ConvertConstruct(v)
        \/ CopyConstruct(v)
        \/ MoveConstruct(v)
        \/ Destroy(v)
        \/ Assign(v)
        \/ Emplace(v)
        \/ CopyAssign(v)
        \/ MoveAssign(v)

SpecCopy == Init /\ [][NextCopy]_vars

\* ------------------------------------------------ thread-safe containers
\* The state of the bare unions, which array operations leave alone.
varsVariant == <<types, policy, status, type, buffer, threw, leaked, last>>

\* std::scoped_lock lock(m...) with every mutex taken regardless of its owner.
lockable_unguarded(mtx, ms) == TRUE

\* std::scoped_lock lock(m...) returns only once every mutex of ms is free ...
lockable(mtx, ms) == \A m \in ms : mtx[m] = "free"

\* ... and the calling thread t then owns them all.
scoped_lock(mtx, t, ms) == [m \in DOMAIN mtx |-> IF m \in ms THEN t ELSE mtx[m]]

\* An unlock() written before the return statement only: skipped by an exception.
scope_exit_on_return_only(mtx, t, out) ==
    IF out = "none"
    THEN [m \in DOMAIN mtx |-> IF mtx[m] = t THEN "free" ELSE mtx[m]]
    ELSE mtx

\* ~scoped_lock() at the end of the operation's scope, whether it is left by a
\* return or by an exception (out): the mutexes t owns are released.
scope_exit(mtx, t, out) == [m \in DOMAIN mtx |-> IF mtx[m] = t THEN "free" ELSE mtx[m]]

\* Locking two mutexes one after the other, in the order they are written.
std_lock_in_order(mtx, t, m1, m2) ==
    IF mtx[m1] = "free" THEN [mtx EXCEPT ![m1] = t]
    ELSE IF mtx[m1] = t /\ mtx[m2] = "free" THEN [mtx EXCEPT ![m2] = t]
    ELSE mtx

\* std::scoped_lock lock(m1, m2): both mutexes are locked together, by an
\* algorithm that never keeps one while blocked on the other; while either is
\* owned by another thread the caller owns neither.
std_lock(mtx, t, m1, m2) ==
    IF mtx[m1] = "free" /\ mtx[m2] = "free"
    THEN [mtx EXCEPT ![m1] = t, ![m2] = t]
    ELSE mtx

\* Thread t enters operation op of containers obj and other, and is at the
\* std::scoped_lock lock(mutex, other.mutex) that opens it.
CallTwo(t, op, obj, other) ==
    pc' = [pc EXCEPT ![t] = [IdlePc EXCEPT !.at = "lock", !.op = op,
                                           !.obj = obj, !.other = other]]

\* A step of std::scoped_lock lock(mutex, other.mutex) of thread t; the
\* operation goes on once t owns both mutexes.
Lock(t) ==
    /\ pc[t].at = "lock"
    /\ LET m == std_lock(mutex, t, pc[t].obj, pc[t].other)
       IN  /\ m # mutex
           /\ mutex' = m
           /\ pc' = [pc EXCEPT ![t].at =
                       IF m[pc[t].obj] = t /\ m[pc[t].other] = t
                       THEN "body" ELSE "lock"]
    /\ UNCHANGED <<varsVariant, arr>>

\* Thread t enters operation op of container obj (and of `other`, for an
\* operation on two containers): std::scoped_lock lock(mutex) or
\* lock(mutex, other.mutex) at the head of the operation returns, t owning the
\* mutexes.  throws tells whether the callback or constructor handed over is
\* one that can throw.
Call_(t, op, obj, other, arg, val, throws) ==
    LET ms == {obj} \cup (IF other = "none" THEN {} ELSE {other})
    IN  /\ lockable(mutex, ms)
        /\ mutex' = scoped_lock(mutex, t, ms)
        /\ pc' = [pc EXCEPT ![t] =
                    [IdlePc EXCEPT !.at = "body", !.op = op, !.obj = obj,
                                   !.other = other, !.arg = arg, !.val = val,
                                   !.throws = throws]]

\* The operation of thread t goes on with element i + 1, or is over.
Advance(t) ==
    IF pc[t].i + 1 = NbElem
    THEN [pc[t] EXCEPT !.at = "exit"]
    ELSE [pc[t] EXCEPT !.i = @ + 1]

\* array<T, nb_elem, ThreadSafe>::fill(obj)
Fill(t) ==
    /\ pc[t].at = "idle"
    /\ \E x \in Arrays, val \in Values :
         /\ arr[x] # <<>>
         /\ Call_(t, "fill", x, "none", NoRet, val, FALSE)
    /\ UNCHANGED <<varsVariant, arr>>

\* fill: buffer[i] = obj
FillStep(t) ==
    /\ pc[t].at = "body" /\ pc[t].op = "fill"
    /\ arr' = [arr EXCEPT ![pc[t].obj][pc[t].i + 1] = pc[t].val]
    /\ pc' = [pc EXCEPT ![t] = Advance(t)]
    /\ UNCHANGED <<varsVariant, mutex>>

\* array<T, nb_elem, ThreadSafe>::for_each(func): func writes val to the element
\* it is given, or (val = NoRet) only reads it, and does not throw
ForEach(t) ==
    /\ pc[t].at = "idle"
    /\ \E x \in Arrays, val \in Values \cup {NoRet} :
         /\ arr[x] # <<>>
         /\ Call_(t, "for_each", x, "none", NoRet, val, FALSE)
    /\ UNCHANGED <<varsVariant, arr>>

\* for_each(func) with a callback that can throw
ForEachThrowing(t) ==
    /\ pc[t].at = "idle"
    /\ \E x \in Arrays, val \in Values \cup {NoRet} :
         /\ arr[x] # <<>>
         /\ Call_(t, "for_each", x, "none", NoRet, val, TRUE)
    /\ UNCHANGED <<varsVariant, arr>>

\* for_each: func(buffer[i])
ForEachStep(t) ==
    /\ pc[t].at = "body" /\ pc[t].op = "for_each"
    /\ \E throws \in MayThrow(~pc[t].throws) :
         IF throws
         THEN /\ pc' = [pc EXCEPT ![t].at = "exit", ![t].out = "callback"]
              /\ arr' = arr
         ELSE IF pc[t].val = NoRet
              THEN /\ pc' = [pc EXCEPT ![t] =
                               [Advance(t) EXCEPT !.seen =
                                   Append(@, arr[pc[t].obj][pc[t].i + 1])]]
                   /\ arr' = arr
              ELSE /\ pc' = [pc EXCEPT ![t] = Advance(t)]
                   /\ arr' = [arr EXCEPT ![pc[t].obj][pc[t].i + 1] = pc[t].val]
    /\ UNCHANGED <<varsVariant, mutex>>

\* array<T, nb_elem, ThreadSafe>::operator[](index), as in arr[index] = val or
\* (val = NoRet) a read of arr[index]
Subscript(t) ==
    /\ pc[t].at = "idle"
    /\ \E x \in Arrays, index \in 0..(NbElem + 1), val \in Values \cup {NoRet} :
         /\ arr[x] # <<>>
         /\ Call_(t, "subscript", x, "none", index, val, FALSE)
    /\ UNCHANGED <<varsVariant, arr>>

\* operator[]: if (index < nb_elem) return buffer[index]; throw std::out_of_range
SubscriptStep(t) ==
    /\ pc[t].at = "body" /\ pc[t].op = "subscript"
    /\ pc' = [pc EXCEPT ![t] =
                IF array_subscript(NbElem, pc[t].arg) = "ok"
                THEN [pc[t] EXCEPT !.at = "exit", !.ret = pc[t].arg]
                ELSE [pc[t] EXCEPT !.at = "exit", !.out = "out_of_range"]]
    /\ UNCHANGED <<varsVariant, mutex, arr>>

\* The caller uses the T& operator[] returned: the assignment or read of
\* arr[index] itself
RefUse(t) ==
    /\ pc[t].at = "ref"
    /\ IF pc[t].val = NoRet
       THEN arr' = arr
       ELSE arr' = [arr EXCEPT ![pc[t].obj][pc[t].ret + 1] = pc[t].val]
    /\ pc' = [pc EXCEPT ![t] = IdlePc]
    /\ UNCHANGED <<varsVariant, mutex>>

\* array<T, nb_elem, ThreadSafe>::access_index(index, func)
AccessIndex(t) ==
    /\ pc[t].at = "idle"
    /\ \E x \in Arrays, index \in 0..(NbElem + 1) :
         /\ arr[x] # <<>>
         /\ Call_(t, "access_index", x, "none", index, NoRet, TRUE)
    /\ UNCHANGED <<varsVariant, arr>>

\* access_index: if (index < nb_elem) { func(buffer[index]); return true; }
\* return false; func may throw (ret: 1 for true, 0 for false)
AccessIndexStep(t) ==
    /\ pc[t].at = "body" /\ pc[t].op = "access_index"
    /\ IF pc[t].arg < NbElem
       THEN \E throws \in MayThrow(~pc[t].throws) :
              pc' = [pc EXCEPT ![t] =
                       IF throws
                       THEN [pc[t] EXCEPT !.at = "exit", !.out = "callback"]
                       ELSE [pc[t] EXCEPT !.at = "exit", !.ret = 1,
                                          !.seen = <<arr[pc[t].obj][pc[t].arg + 1]>>]]
       ELSE pc' = [pc EXCEPT ![t].at = "exit", ![t].ret = 0]
    /\ UNCHANGED <<varsVariant, mutex, arr>>

\* array<T, nb_elem, ThreadSafe>::swap(other)
Swap(t) ==
    /\ pc[t].at = "idle"
    /\ \E x \in Arrays, other \in Arrays :
         /\ other # x
         /\ arr[x] # <<>> /\ arr[other] # <<>>
         /\ CallTwo(t, "swap", x, other)
    /\ UNCHANGED <<varsVariant, mutex, arr>>

\* An exchange that goes without the temporary.
swap_elements_no_temp(a, b, i) ==
    [this |-> [a EXCEPT ![i] = a[i]], other |-> [b EXCEPT ![i] = a[i]]]

\* swap, the body of the loop on buffers a (this) and b (other):
\* temp = other.buffer[i]; other.buffer[i] = buffer[i]; buffer[i] = temp
swap_elements(a, b, i) ==
    LET temp == b[i]
        b1   == [b EXCEPT ![i] = a[i]]
        a1   == [a EXCEPT ![i] = temp]
    IN  [this |-> a1, other |-> b1]

\* swap: one turn of the loop.  seen keeps what both arrays held when the
\* loop began: buffer first, other.buffer after it.
SwapStep(t) ==
    /\ pc[t].at = "body" /\ pc[t].op = "swap"
    /\ LET x == pc[t].obj
           o == pc[t].other
           r == swap_elements(arr[x], arr[o], pc[t].i + 1)
       IN  /\ arr' = [arr EXCEPT ![x] = r.this, ![o] = r.other]
           /\ pc' = [pc EXCEPT ![t] =
                       [Advance(t) EXCEPT !.seen =
                           IF pc[t].i = 0 THEN arr[x] \o arr[o] ELSE @]]
    /\ UNCHANGED <<varsVariant, mutex>>

\* The operation of thread t returns or is left by an exception: the
\* scoped_lock goes out of scope.  A reference returned by operator[] stays
\* with the caller.  A thread started for one operation on two containers ends
\* with it.
Return(t) ==
    /\ pc[t].at = "exit"
    /\ mutex' = scope_exit(mutex, t, pc[t].out)
    /\ pc' = [pc EXCEPT ![t] =
                IF pc[t].op = "subscript" /\ pc[t].out = "none"
                THEN [pc[t] EXCEPT !.at = "ref"]
                ELSE IF pc[t].other # "none"
                THEN [pc[t] EXCEPT !.at = "done", !.i = 0]
                ELSE [IdlePc EXCEPT !.out = pc[t].out]]
    /\ UNCHANGED <<varsVariant, arr>>

\* No union is declared; the threads have not started.
InitThreads ==
    /\ types = <<"int", "float">>
    /\ policy = "AutoComplexityDestruct"
    /\ status = [v \in Variants |-> "unborn"]
    /\ type = [v \in Variants |-> 0]
    /\ buffer = [v \in Variants |-> EmptyBuffer]
    /\ threw = FALSE
    /\ leaked = FALSE
    /\ last = NoLast
    /\ mutex = [c \in Variants \cup Arrays |-> "free"]
    /\ pc = [t \in Threads |-> IdlePc]

\* vale::array<int, nb_elem, vale::ThreadSafe> ts_array = {};
InitArray ==
    /\ InitThreads
    /\ arr = [x \in Arrays |-> IF x = "x" THEN [i \in 1..NbElem |-> 0] ELSE <<>>]

\* Two thread-safe arrays, both zero-initialised.
InitArrays ==
    /\ InitThreads
    /\ arr = [x \in Arrays |-> [i \in 1..NbElem |-> 0]]

\* Two thread-safe arrays with different contents:
\* vale::array<int, nb_elem, ThreadSafe> x = {1, 0, 1, ...}, y = {0, 1, 0, ...};
InitSwap ==
    /\ InitThreads
    /\ arr = [x \in Arrays |->
                [i \in 1..NbElem |-> IF x = "x" THEN i % (MaxVal + 1)
                                     ELSE (i + 1) % (MaxVal + 1)]]

\* Threads swapping, filling and traversing the two arrays.
NextSwap ==
    \E t \in Threads :
        \/ Swap(t)
        \/ Fill(t)
        \/ ForEach(t)
        \/ Lock(t)
        \/ SwapStep(t)
        \/ FillStep(t)
        \/ ForEachStep(t)
        \/ Return(t)

SpecSwap == InitSwap /\ [][NextSwap]_vars

\* Threads filling and traversing thread-safe arrays.
NextFill ==
    \E t \in Threads :
        \/ Fill(t)
        \/ ForEach(t)
        \/ FillStep(t)
        \/ ForEachStep(t)
        \/ Return(t)

SpecFill == InitArrays /\ [][NextFill]_vars

\* Threads using every operation of one thread-safe array.
NextArray ==
    \E t \in Threads :
        \/ Fill(t)
        \/ ForEach(t)
        \/ ForEachThrowing(t)
        \/ Subscript(t)
        \/ AccessIndex(t)
        \/ FillStep(t)
        \/ ForEachStep(t)
        \/ SubscriptStep(t)
        \/ AccessIndexStep(t)
        \/ Return(t)
        \/ RefUse(t)

SpecArray == InitArray /\ [][NextArray]_vars

\* operator<<(os, var) on an array with the ThreadSafe policy:
\* if constexpr (...) { std::scoped_lock lock(var.mutex); ... the lock is taken
ArrayStreamInsert(t) ==
    /\ pc[t].at = "idle"
    /\ \E x \in Arrays :
         /\ arr[x] # <<>>
         /\ lockable(mutex, {x})
         /\ mutex' = scoped_lock(mutex, t, {x})
         /\ pc' = [pc EXCEPT ![t] =
                     [IdlePc EXCEPT !.at = "scope", !.op = "operator<<", !.obj = x]]
    /\ UNCHANGED <<varsVariant, arr>>

\* operator<<: ... } the block of the if constexpr ends, and the scoped_lock
\* declared in it goes out of scope; os << "{" follows
ArrayStreamInsertScopeEnd(t) ==
    /\ pc[t].at = "scope"
    /\ mutex' = scope_exit(mutex, t, "none")
    /\ pc' = [pc EXCEPT ![t].at = "print"]
    /\ UNCHANGED <<varsVariant, arr>>

\* operator<<: os << *(var.data() + i), in the loop for i < size - 1 and
\* after it for i = size - 1; seen is what has been written to os
ArrayStreamInsertStep(t) ==
    /\ pc[t].at = "print"
    /\ pc' = [pc EXCEPT ![t] =
                [pc[t] EXCEPT !.seen = Append(@, arr[pc[t].obj][pc[t].i + 1]),
                              !.i = IF pc[t].i + 1 = NbElem THEN 0 ELSE @ + 1,
                              !.at = IF pc[t].i + 1 = NbElem THEN "idle" ELSE "print"]]
    /\ UNCHANGED <<varsVariant, mutex, arr>>

\* Threads filling, traversing and printing one thread-safe array.
NextPrint ==
    \E t \in Threads :
        \/ Fill(t)
        \/ ForEach(t)
        \/ ArrayStreamInsert(t)
        \/ FillStep(t)
        \/ ForEachStep(t)
        \/ Return(t)
        \/ ArrayStreamInsertScopeEnd(t)
        \/ ArrayStreamInsertStep(t)

SpecPrint == InitArray /\ [][NextPrint]_vars

\* ------------------------------------------------- thread-safe variant
\* A step of an operation of thread t on the union wrapped by pc[t].obj: the
\* union becomes M, the thread goes on as next.
WrappedStep(t, M, op, next) ==
    /\ Record(M, op, pc[t].obj, 0, NoRet, FALSE, NoRet)
    /\ pc' = [pc EXCEPT ![t] = next]
    /\ UNCHANGED <<status, mutex, arr>>

\* The operation of thread t ends with exception exc ("none": it returns ret).
Exit(t, exc, ret) == [pc[t] EXCEPT !.at = "exit", !.out = exc, !.ret = ret]

\* thread-safe variant_impl::operator=(T&& obj)
TSAssign(t) ==
    /\ pc[t].at = "idle"
    /\ \E w \in Variants, T \in PackTypes, val \in Values :
         /\ status[w] = "alive"
         /\ Call_(t, "assign", w, "none", get_index_of_type_from_pack(T), val,
                  ~is_nothrow_move_constructible(T))
    /\ UNCHANGED <<varsVariant, arr>>

\* thread-safe variant_impl::try_emplace<T>(args...)
TSTryEmplace(t) ==
    /\ pc[t].at = "idle"
    /\ \E w \in Variants, T \in PackTypes, val \in Values :
         /\ status[w] = "alive"
         /\ Call_(t, "try_emplace", w, "none", get_index_of_type_from_pack(T), val,
                  ~is_nothrow_constructible(T))
    /\ UNCHANGED <<varsVariant, arr>>

\* thread-safe variant_impl::emplace_and<FuncReturn, T>(func, args...)
TSEmplaceAnd(t) ==
    /\ pc[t].at = "idle"
    /\ \E w \in Variants, T \in PackTypes, val \in Values :
         /\ status[w] = "alive"
         /\ Call_(t, "emplace_and", w, "none", get_index_of_type_from_pack(T), val,
                  ~is_nothrow_constructible(T))
    /\ UNCHANGED <<varsVariant, arr>>

\* thread-safe variant_impl::get_and<T>(func)
TSGetAnd(t) ==
    /\ pc[t].at = "idle"
    /\ \E w \in Variants, T \in PackTypes :
         /\ status[w] = "alive"
         /\ Call_(t, "get_and", w, "none", get_index_of_type_from_pack(T), NoRet, TRUE)
    /\ UNCHANGED <<varsVariant, arr>>

\* thread-safe variant_impl::print(os)
TSPrint(t) ==
    /\ pc[t].at = "idle"
    /\ \E w \in Variants :
         /\ status[w] = "alive"
         /\ Call_(t, "print", w, "none", 0, NoRet, FALSE)
    /\ UNCHANGED <<varsVariant, arr>>

\* thread-safe variant_impl::operator=(const variant_impl& to_copy), taken as
\* copying the union to_copy wraps
TSCopyAssign(t) ==
    /\ pc[t].at = "idle"
    /\ \E w \in Variants, src \in Variants :
         /\ src # w
         /\ status[w] = "alive" /\ status[src] = "alive"
         /\ CallTwo(t, "copy_assign", w, src)
    /\ UNCHANGED <<varsVariant, mutex, arr>>

\* variant.destruct_active(), the first statement under the lock of
\* operator=, try_emplace and emplace_and
TSDestructStep(t) ==
    /\ pc[t].at = "body" /\ pc[t].i = 0
    /\ pc[t].op \in {"assign", "try_emplace", "emplace_and", "copy_assign"}
    /\ LET M == destruct_active(Cur, pc[t].obj)
       IN  WrappedStep(t, M, "destruct_active",
                       IF M.exc = "none" THEN [pc[t] EXCEPT !.i = 1]
                       ELSE Exit(t, M.exc, NoRet))

\* operator=(T&&): variant = std::forward<T>(obj)
TSAssignStep(t) ==
    /\ pc[t].at = "body" /\ pc[t].i = 1 /\ pc[t].op = "assign"
    /\ \E throws \in MayThrow(~pc[t].throws) :
         LET w  == pc[t].obj
             M1 == destruct_active(Cur, w)
             M2 == Then(M1, construct(M1, w, TypeAt(pc[t].arg), pc[t].val,
                                      ~pc[t].throws, throws))
         IN  WrappedStep(t, M2, "assign", Exit(t, M2.exc, NoRet))

\* try_emplace: variant.emplace<T>(args...), returning true when T is nothrow
\* constructible and false from the catch clause; the path on which a
\* constructor that may throw succeeds has no return statement
TSTryEmplaceStep(t) ==
    /\ pc[t].at = "body" /\ pc[t].i = 1 /\ pc[t].op = "try_emplace"
    /\ \E throws \in MayThrow(~pc[t].throws), noreturn \in {0, 1} :
         LET w  == pc[t].obj
             M1 == destruct_active(Cur, w)
             M2 == Then(M1, construct(M1, w, TypeAt(pc[t].arg), pc[t].val,
                                      ~pc[t].throws, throws))
             M3 == IF M2.exc = "ctor" THEN [M2 EXCEPT !.exc = "none"] ELSE M2
         IN  WrappedStep(t, M3, "try_emplace",
                         Exit(t, M3.exc,
                              IF ~pc[t].throws THEN 1
                              ELSE IF M2.exc = "ctor" THEN 0 ELSE noreturn))

\* emplace_and: variant.emplace<T>(args...)
TSEmplaceStep(t) ==
    /\ pc[t].at = "body" /\ pc[t].i = 1 /\ pc[t].op = "emplace_and"
    /\ \E throws \in MayThrow(~pc[t].throws) :
         LET w  == pc[t].obj
             M1 == destruct_active(Cur, w)
             M2 == Then(M1, construct(M1, w, TypeAt(pc[t].arg), pc[t].val,
                                      ~pc[t].throws, throws))
         IN  WrappedStep(t, M2, "emplace",
                         IF M2.exc = "none" THEN [pc[t] EXCEPT !.i = 2]
                         ELSE Exit(t, M2.exc, NoRet))

\* emplace_and: return func(*reinterpret_cast<T*>(variant.buffer_pointer()));
\* func returns what it read, or throws
TSFuncStep(t) ==
    /\ pc[t].at = "body" /\ pc[t].i = 2 /\ pc[t].op = "emplace_and"
    /\ LET b == buffer[pc[t].obj]
       IN  \E throws \in BOOLEAN,
              rval \in (IF b.live /\ b.ty = pc[t].arg THEN {b.val} ELSE Values) :
             WrappedStep(t, [Cur EXCEPT !.calls =
                                <<Call("func", pc[t].arg, pc[t].obj,
                                       b.live /\ b.ty = pc[t].arg)>>],
                         "func",
                         IF throws THEN Exit(t, "callback", NoRet)
                         ELSE [Exit(t, "none", rval) EXCEPT !.seen = <<rval>>])

\* get_and: if (variant.holds_active_type<T>()) ... return false;
TSCheckStep(t) ==
    /\ pc[t].at = "body" /\ pc[t].i = 0 /\ pc[t].op = "get_and"
    /\ WrappedStep(t, Cur, "holds_active_type",
                   IF holds_active_type(Cur, pc[t].obj, TypeAt(pc[t].arg))
                   THEN [pc[t] EXCEPT !.i = 1]
                   ELSE Exit(t, "none", 0))

\* get_and: func(variant.get<T>()); return true;
TSGetStep(t) ==
    /\ pc[t].at = "body" /\ pc[t].i = 1 /\ pc[t].op = "get_and"
    /\ LET r == get(Cur, pc[t].obj, TypeAt(pc[t].arg))
       IN  \E throws \in BOOLEAN, rval \in r.vals :
             WrappedStep(t, [Cur EXCEPT !.calls = r.calls], "get",
                         IF r.exc # "none" THEN Exit(t, r.exc, NoRet)
                         ELSE IF throws THEN Exit(t, "callback", NoRet)
                         ELSE [Exit(t, "none", 1) EXCEPT !.seen = <<rval>>])

\* print: variant.print(os)
TSPrintStep(t) ==
    /\ pc[t].at = "body" /\ pc[t].op = "print"
    /\ LET M == print(Cur, pc[t].obj)
       IN  WrappedStep(t, M, "print", Exit(t, M.exc, NoRet))

\* copy assignment: variant = to_copy
TSCopyStep(t) ==
    /\ pc[t].at = "body" /\ pc[t].i = 1 /\ pc[t].op = "copy_assign"
    /\ LET w   == pc[t].obj
           src == pc[t].other
           M1  == destruct_active(Cur, w)
           M2  == [M1 EXCEPT !.type[w] = M1.type[src]]
       IN  \E throws \in MayThrow(SrcNothrow(src, FALSE)),
              uval \in Indeterminate(M1.buffer[src]) :
             LET M3 == Then(M1, copy_payload(M2, w, src, throws, uval))
             IN  WrappedStep(t, M3, "copy_assign", Exit(t, M3.exc, NoRet))

\* get_underlying_variant().emplace<T>(args...): the wrapped union used
\* directly, with no lock
Underlying(t) ==
    /\ pc[t].at = "idle"
    /\ \E w \in Variants, T \in PackTypes, val \in Values :
         /\ status[w] = "alive"
         /\ pc' = [pc EXCEPT ![t] =
                     [IdlePc EXCEPT !.at = "bare", !.op = "underlying", !.obj = w,
                                    !.arg = get_index_of_type_from_pack(T),
                                    !.val = val,
                                    !.throws = ~is_nothrow_constructible(T)]]
    /\ UNCHANGED <<varsVariant, mutex, arr>>

\* emplace<T> on the reference get_underlying_variant() returned:
\* destruct_active(), then construct<T>(args...)
UnderlyingStep(t) ==
    /\ pc[t].at = "bare"
    /\ IF pc[t].i = 0
       THEN WrappedStep(t, destruct_active(Cur, pc[t].obj), "destruct_active",
                        [pc[t] EXCEPT !.i = 1])
       ELSE \E throws \in MayThrow(~pc[t].throws) :
              LET M == construct(Cur, pc[t].obj, TypeAt(pc[t].arg), pc[t].val,
                                 ~pc[t].throws, throws)
              IN  WrappedStep(t, M, "emplace",
                              [IdlePc EXCEPT !.out = M.exc])

\* ~variant_impl() of the wrapper, once no thread uses it any more
TSDestroy(w) ==
    /\ \A t \in Threads : pc[t].at = "idle"
    /\ Destroy(w)

\* vale::ts_variant<First, Rest...> a{}; with the threads not started
InitWrapper ==
    /\ \E inst \in Instantiations :
         /\ types = inst.types
         /\ policy = inst.policy
    /\ status = [v \in Variants |-> IF v = "a" THEN "alive" ELSE "unborn"]
    /\ type = [v \in Variants |-> 0]
    /\ buffer = [v \in Variants |->
                   IF v = "a" THEN [EmptyBuffer EXCEPT !.obj = TRUE, !.live = TRUE]
                   ELSE EmptyBuffer]
    /\ threw = FALSE
    /\ leaked = FALSE
    /\ last = NoLast
    /\ mutex = [c \in Variants \cup Arrays |-> "free"]
    /\ pc = [t \in Threads |-> IdlePc]
    /\ arr = [x \in Arrays |-> <<>>]

\* The locking operations of one thread-safe variant called from two threads.
NextWrapper ==
    \/ \E t \in Threads :
        \/ TSAssign(t)
        \/ TSTryEmplace(t)
        \/ TSEmplaceAnd(t)
        \/ TSGetAnd(t)
        \/ TSPrint(t)
        \/ TSDestructStep(t)
        \/ TSAssignStep(t)
        \/ TSTryEmplaceStep(t)
        \/ TSEmplaceStep(t)
        \/ TSFuncStep(t)
        \/ TSCheckStep(t)
        \/ TSGetStep(t)
        \/ TSPrintStep(t)
        \/ Return(t)
    \/ TSDestroy("a")

SpecWrapper == InitWrapper /\ [][NextWrapper]_vars

\* The thread-safe variant read from two threads through get_and and print,
\* and written through get_underlying_variant().
NextUnderlying ==
    \E t \in Threads :
        \/ TSGetAnd(t)
        \/ TSPrint(t)
        \/ TSCheckStep(t)
        \/ TSGetStep(t)
        \/ TSPrintStep(t)
        \/ Return(t)
        \/ Underlying(t)
        \/ UnderlyingStep(t)

SpecUnderlying == InitWrapper /\ [][NextUnderlying]_vars

\* vale::array<int, nb_elem, ThreadSafe> x, y, filled; or
\* vale::ts_variant<...> a{obj}, b{obj}; with the threads not started
InitTwo ==
    \/ /\ InitThreads
       /\ \E vx, vy \in Values :
            arr = [x \in Arrays |-> [i \in 1..NbElem |-> IF x = "x" THEN vx ELSE vy]]
    \/ /\ \E inst \in Instantiations :
            /\ types = inst.types
            /\ policy = inst.policy
       /\ status = [v \in Variants |-> "alive"]
       /\ \E ta, tb \in 0..1, val \in Values :
            /\ type = [v \in Variants |-> IF v = "a" THEN ta ELSE tb]
            /\ buffer = [v \in Variants |->
                           [obj |-> TRUE, ty |-> type[v], val |-> val,
                            live |-> TRUE, dtors |-> 0]]
       /\ threw = FALSE
       /\ leaked = FALSE
       /\ last = NoLast
       /\ mutex = [c \in Variants \cup Arrays |-> "free"]
       /\ pc = [t \in Threads |-> IdlePc]
       /\ arr = [x \in Arrays |-> <<>>]

\* Each thread runs one operation on two containers: swap of two thread-safe
\* arrays, or assignment of one thread-safe variant to another.
NextTwo ==
    \E t \in Threads :
        \/ Swap(t)
        \/ TSCopyAssign(t)
        \/ Lock(t)
        \/ SwapStep(t)
        \/ TSDestructStep(t)
        \/ TSCopyStep(t)
        \/ Return(t)

\* A running thread is scheduled again and again; a thread blocked in
\* std::scoped_lock goes on once the mutexes stay free.
FairTwo ==
    \A t \in Threads :
        WF_vars(Lock(t) \/ SwapStep(t) \/ TSDestructStep(t) \/ TSCopyStep(t)
                  \/ Return(t))

SpecTwo == InitTwo /\ [][NextTwo]_vars /\ FairTwo

\* ------------------------------------------------- static member functions
\* The DestructionPolicy arguments variant_impl accepts.
Policies ==
    {"AutoComplexityDestruct", "LinearComplexityDestruct", "ConstantComplexityDestruct"}

\* Auto selection dividing before it multiplies: (n / 10) * 9.
destructor_complexity_divide_first(pol, n, k) ==
    IF pol = "AutoComplexityDestruct"
    THEN IF k > (n \div 10) * 9
         THEN "constant_complexity"
         ELSE "linear_complexity"
    ELSE IF pol = "ConstantComplexityDestruct"
         THEN "constant_complexity"
         ELSE "linear_complexity"

\* Auto selection with >= in place of >.
destructor_complexity_at_least(pol, n, k) ==
    IF pol = "AutoComplexityDestruct"
    THEN IF k >= (n * 9) \div 10
         THEN "constant_complexity"
         ELSE "linear_complexity"
    ELSE IF pol = "ConstantComplexityDestruct"
         THEN "constant_complexity"
         ELSE "linear_complexity"

\* variant_impl<pol, ...>::destructor_complexity() for a pack of n types
\* (sizeof...(Rest) + 1), k of them not fundamental (count_non_fundamental_v)
destructor_complexity_for(pol, n, k) ==
    IF pol = "AutoComplexityDestruct"
    THEN IF k > (n * 9) \div 10
         THEN "constant_complexity"
         ELSE "linear_complexity"
    ELSE IF pol = "ConstantComplexityDestruct"
         THEN "constant_complexity"
         ELSE "linear_complexity"

\* decltype(arr)::destructor_complexity() evaluated by main for some
\* instantiation: other keeps the policy, arg the number of types, val the
\* number of types that are not fundamental, out the answer
DestructorComplexity ==
    /\ \E pol \in Policies, n \in 1..MaxTypes :
         \E k \in 0..n :
           pc' = [pc EXCEPT ![Main] =
                    [IdlePc EXCEPT !.op = "destructor_complexity", !.other = pol,
                                   !.arg = n, !.val = k,
                                   !.out = destructor_complexity_for(pol, n, k)]]
    /\ UNCHANGED <<varsVariant, mutex, arr>>

\* main() asking for the destruction algorithm of instantiations.
NextStatic ==
    \/ DestructorComplexity

SpecStatic == Init /\ [][NextStatic]_vars

\* ------------------------------------------- vale::variant of variant.h
\* variant::is_valid(): return type == sizeof...(Rest) + 1;
variant_is_valid(M, v) == M.type[v] = max_active_index + 1

\* variant::destruct_active(): the active object is destroyed when is_valid()
\* answers true, or without asking when the variant cannot be invalid
variant_destruct_active(M, v) ==
    IF can_be_invalid
    THEN IF variant_is_valid(M, v) THEN impl_destruct_dispatch(M, v) ELSE M
    ELSE impl_destruct_dispatch(M, v)

\* variant::construct<T>(args...): type = index of T; new(buffer) T(args...);
\* on an exception set_invalid_state() and rethrow
variant_construct(M, v, T, val, throws) ==
    LET t  == get_index_of_type_from_pack(T)
        M1 == [M EXCEPT !.type[v] = t]
    IN  IF throws
        THEN [set_invalid_state(M1, v) EXCEPT !.exc = "ctor", !.threw = TRUE]
        ELSE placement_new(M1, v, t, val, "ctor", TRUE)

\* variant(const T& object)
VariantConstruct(v) ==
    /\ status[v] = "unborn"
    /\ \E T \in PackTypes, val \in Values :
         \E throws \in MayThrow(is_nothrow_copy_constructible(T)) :
           LET M == variant_construct(Cur, v, T, val, throws)
           IN  /\ Commit(M, "variant", v, get_index_of_type_from_pack(T), val,
                         throws, NoRet)
               /\ status' = [status EXCEPT ![v] = IF M.exc = "none" THEN "alive" ELSE @]

\* variant::emplace<T>(args...)
VariantEmplace(v) ==
    /\ status[v] = "alive"
    /\ \E T \in PackTypes, val \in Values :
         \E throws \in MayThrow(is_nothrow_constructible(T)) :
           LET M1 == variant_destruct_active(Cur, v)
               M2 == Then(M1, variant_construct(M1, v, T, val, throws))
           IN  Commit(M2, "emplace", v, get_index_of_type_from_pack(T), val,
                      throws, NoRet)
    /\ UNCHANGED status

\* variant::operator=(const T& object)
VariantAssign(v) ==
    /\ status[v] = "alive"
    /\ \E T \in PackTypes, val \in Values :
         \E throws \in MayThrow(is_nothrow_copy_constructible(T)) :
           LET M1 == variant_destruct_active(Cur, v)
               M2 == Then(M1, variant_construct(M1, v, T, val, throws))
           IN  Commit(M2, "operator=", v, get_index_of_type_from_pack(T), val,
                      throws, NoRet)
    /\ UNCHANGED status

\* variant::is_valid() called by the client
VariantIsValid(v) ==
    /\ status[v] = "alive"
    /\ Commit(Cur, "is_valid", v, 0, NoRet, FALSE, variant_is_valid(Cur, v))
    /\ UNCHANGED status

\* ~variant()
VariantDestroy(v) ==
    /\ status[v] = "alive"
    /\ LET M == variant_destruct_active(Cur, v)
       IN  Commit([M EXCEPT !.leaked = @ \/ HoldsLiveNonTrivial(M.buffer[v])],
                  "~variant", v, 0, NoRet, FALSE, NoRet)
    /\ status' = [status EXCEPT ![v] = "destroyed"]

\* No variant declared yet: vale::variant<int, float, helper> as in main, or
\* one of the other packs
InitVariant ==
    /\ Init
    /\ policy = "AutoComplexityDestruct"

\* main() using one vale::variant.
NextVariant ==
    \/ VariantConstruct("a")
    \/ VariantEmplace("a")
    \/ VariantAssign("a")
    \/ VariantIsValid("a")
    \/ VariantDestroy("a")

SpecVariant == InitVariant /\ [][NextVariant]_vars

\* ---------------------------------------------------- non-thread-safe array
\* array<T, nb_elem, NonThreadSafe>::to_view(offset, size): the view
\* array_view<T>(buffer + offset, size), or std::out_of_range
to_view(nb_elem, offset, size) ==
    IF (offset + size + SizeMax - 1) % SizeMax < nb_elem
    THEN [out |-> "none", offset |-> offset, size |-> size]
    ELSE [out |-> "out_of_range", offset |-> 0, size |-> 0]

\* arr.to_view(offset, size) called from main: i and ret keep where the view
\* starts and how many elements it has
ToView ==
    /\ pc[Main].at = "idle"
    /\ arr["x"] # <<>>
    /\ \E offset, size \in 0..(SizeMax - 1) :
         LET r == to_view(NbElem, offset, size)
         IN  pc' = [pc EXCEPT ![Main] =
                      [IdlePc EXCEPT !.op = "to_view", !.obj = "x",
                                     !.arg = offset, !.val = size,
                                     !.out = r.out, !.i = r.offset,
                                     !.ret = r.size]]
    /\ UNCHANGED <<varsVariant, mutex, arr>>

\* Iterators are positions in the buffer: buffer + k is k.
\* array<T, nb_elem, NonThreadSafe>::begin(): array_iterator<T>(buffer)
begin(nb_elem) == 0

\* end(): array_iterator<T>(buffer + nb_elem)
end(nb_elem) == nb_elem

\* cbegin(): return buffer + nb_elem;
cbegin(nb_elem) == nb_elem

\* cend(): return buffer + nb_elem;
cend(nb_elem) == nb_elem

\* for (auto it = arr.begin(); it != arr.end(); ++it): the loop is entered;
\* i keeps the iterator, ret the end iterator
Iterate ==
    /\ pc[Main].at = "idle"
    /\ arr["x"] # <<>>
    /\ pc' = [pc EXCEPT ![Main] =
                [IdlePc EXCEPT !.at = "iter", !.op = "begin", !.obj = "x",
                               !.i = begin(NbElem), !.ret = end(NbElem)]]
    /\ UNCHANGED <<varsVariant, mutex, arr>>

\* for (auto it = arr.cbegin(); it != arr.cend(); ++it)
ConstIterate ==
    /\ pc[Main].at = "idle"
    /\ arr["x"] # <<>>
    /\ pc' = [pc EXCEPT ![Main] =
                [IdlePc EXCEPT !.at = "iter", !.op = "cbegin", !.obj = "x",
                               !.i = cbegin(NbElem), !.ret = cend(NbElem)]]
    /\ UNCHANGED <<varsVariant, mutex, arr>>

\* One turn of the loop: it != end, visit *it, ++it; or the loop is over
IterateStep ==
    /\ pc[Main].at = "iter"
    /\ pc' = [pc EXCEPT ![Main] =
                IF pc[Main].i # pc[Main].ret
                THEN [pc[Main] EXCEPT !.seen = Append(@, arr["x"][pc[Main].i + 1]),
                                      !.i = @ + 1]
                ELSE [pc[Main] EXCEPT !.at = "idle"]]
    /\ UNCHANGED <<varsVariant, mutex, arr>>

\* var.size() - 1 of operator<< on a view, in size_t arithmetic
view_last(size) == (size + SizeMax - 1) % SizeMax

\* std::cout << arr.to_view(offset, size): operator<< on the view to_view
\* returned; os << "{" and the loop begins.  val keeps the size of the view,
\* arg where it starts; seen will keep the positions read, counted from the
\* start of the view
ViewStreamInsert ==
    /\ pc[Main].at = "idle" /\ pc[Main].op = "to_view" /\ pc[Main].out = "none"
    /\ pc' = [pc EXCEPT ![Main] =
                [IdlePc EXCEPT !.at = "view", !.op = "view<<", !.obj = "x",
                               !.arg = pc[Main].i, !.val = pc[Main].ret]]
    /\ UNCHANGED <<varsVariant, mutex, arr>>

\* operator<< on a view: for (size_t i = 0; i < var.size() - 1; i++)
\* os << *(var.data() + i) << ", "; and after the loop
\* os << *(var.data() + var.size() - 1) << '}'.  A read past the array is
\* undefined; the position it reads is recorded all the same
ViewStreamInsertStep ==
    /\ pc[Main].at = "view"
    /\ pc' = [pc EXCEPT ![Main] =
                IF pc[Main].i < view_last(pc[Main].val)
                THEN [pc[Main] EXCEPT !.seen = Append(@, pc[Main].i), !.i = @ + 1]
                ELSE [pc[Main] EXCEPT !.seen = Append(@, pc[Main].val - 1),
                                      !.at = "idle"]]
    /\ UNCHANGED <<varsVariant, mutex, arr>>

\* vale::array<int, nb_elem> arr = { 0, 1, 2, ... };
InitSeq ==
    /\ InitThreads
    /\ arr = [x \in Arrays |-> IF x = "x" THEN [i \in 1..NbElem |-> i - 1] ELSE <<>>]

\* main() using a non-thread-safe array.
NextSeq ==
    \/ ToView
    \/ Iterate
    \/ ConstIterate
    \/ IterateStep
    \/ ViewStreamInsert
    \/ ViewStreamInsertStep

SpecSeq == InitSeq /\ [][NextSeq]_vars

\* The operations of both thread-safe containers: one thread-safe variant, or
\* one thread-safe array, used from two threads.
InitLocks == InitWrapper \/ InitArray

NextLocks == NextWrapper \/ NextArray

SpecLocks == InitLocks /\ [][NextLocks]_vars

\* ------------------------------------------------------ pass_iterators
\* A sequence in ascending order.
is_sorted(s) == \A i, j \in 1..Len(s) : i <= j => s[i] <= s[j]

\* Two sequences holding the same elements, each as many times.
is_permutation(a, b) ==
    /\ Len(a) = Len(b)
    /\ \A v \in Values :
         Cardinality({i \in 1..Len(a) : a[i] = v})
           = Cardinality({i \in 1..Len(b) : b[i] = v})

\* std::sort(first, last, comp) on the elements s of the range: the ascending
\* permutation of s
std_sort(s) ==
    CHOOSE r \in [1..Len(s) -> Values] : is_sorted(r) /\ is_permutation(r, s)

\* array<T, nb_elem, ThreadSafe>::pass_iterators(function, args...):
\* std::scoped_lock lock{ mutex }; function is called with
\* contiguous_iterator(buffer) (arg, position 0) and
\* contiguous_iterator(buffer + nb_elem) (val, position nb_elem)
PassIterators(t) ==
    /\ pc[t].at = "idle"
    /\ \E x \in Arrays :
         /\ arr[x] # <<>>
         /\ Call_(t, "pass_iterators", x, "none", 0, NbElem, FALSE)
    /\ UNCHANGED <<varsVariant, arr>>

\* pass_iterators, function being std::sort: it reads the range [arg, val) ...
PassIteratorsRead(t) ==
    /\ pc[t].at = "body" /\ pc[t].op = "pass_iterators" /\ pc[t].i = 0
    /\ pc' = [pc EXCEPT ![t] =
                [pc[t] EXCEPT !.i = 1,
                              !.seen = SubSeq(arr[pc[t].obj], pc[t].arg + 1,
                                              pc[t].val)]]
    /\ UNCHANGED <<varsVariant, mutex, arr>>

\* ... and writes it back in order; return function(...)
PassIteratorsWrite(t) ==
    /\ pc[t].at = "body" /\ pc[t].op = "pass_iterators" /\ pc[t].i = 1
    /\ LET r == std_sort(pc[t].seen)
       IN  arr' = [arr EXCEPT ![pc[t].obj] =
                     [k \in 1..Len(@) |->
                        IF pc[t].arg < k /\ k <= pc[t].val
                        THEN r[k - pc[t].arg] ELSE @[k]]]
    /\ pc' = [pc EXCEPT ![t] = [pc[t] EXCEPT !.at = "exit", !.i = 0]]
    /\ UNCHANGED <<varsVariant, mutex>>

\* vale::array<int, nb_elem, ThreadSafe> arr1 = {1, 0, 1, ...}: not in order.
InitPass ==
    /\ InitThreads
    /\ arr = [x \in Arrays |->
                IF x = "x" THEN [i \in 1..NbElem |-> i % (MaxVal + 1)] ELSE <<>>]

\* Threads sorting one thread-safe array through pass_iterators, filling it,
\* traversing it and writing single elements of it.
NextPass ==
    \E t \in Threads :
        \/ PassIterators(t)
        \/ Fill(t)
        \/ ForEach(t)
        \/ Subscript(t)
        \/ PassIteratorsRead(t)
        \/ PassIteratorsWrite(t)
        \/ FillStep(t)
        \/ ForEachStep(t)
        \/ SubscriptStep(t)
        \/ Return(t)
        \/ RefUse(t)

SpecPass == InitPass /\ [][NextPass]_vars

\* ------------------------------------------------ re-entrant callbacks
\* Thread t is about to call the callback it was handed, or is inside it:
\* func(buffer[i]) of for_each and access_index, function(first, last, args...)
\* of pass_iterators, func(variant.get<T>()) of get_and, func(...) of
\* emplace_and.
AtCallback(t) ==
    /\ pc[t].at = "body"
    /\ \/ pc[t].op = "for_each"
       \/ pc[t].op = "pass_iterators"
       \/ pc[t].op = "access_index" /\ pc[t].arg < NbElem
       \/ pc[t].op = "get_and" /\ pc[t].i = 1
       \/ pc[t].op = "emplace_and" /\ pc[t].i = 2

\* The callback of the operation of thread t calls a locking operation of the
\* container it was called by, and is at the std::scoped_lock that opens it.
Reenter(t) ==
    /\ AtCallback(t)
    /\ pc' = [pc EXCEPT ![t].at = "reenter"]
    /\ UNCHANGED <<varsVariant, mutex, arr>>

\* std::mutex::lock() called by the thread that owns the mutex: undefined.
\* The call blocks for ever (no step is taken), or the library detects it and
\* throws std::system_error (resource_deadlock_would_occur), which leaves the
\* callback and the operation that called it.  Were the mutex free the
\* operation called by the callback would go on, owning it.
ReenterLock(t) ==
    /\ pc[t].at = "reenter"
    /\ IF lockable(mutex, {pc[t].obj})
       THEN /\ mutex' = scoped_lock(mutex, t, {pc[t].obj})
            /\ pc' = [pc EXCEPT ![t].at = "nested"]
       ELSE /\ mutex' = mutex
            /\ pc' = [pc EXCEPT ![t] = Exit(t, "system_error", NoRet)]
    /\ UNCHANGED <<varsVariant, arr>>

\* Threads whose callbacks may call back into the container: one thread-safe
\* array, or one thread-safe variant.
NextReenter ==
    \E t \in Threads :
        \/ Fill(t)
        \/ ForEach(t)
        \/ AccessIndex(t)
        \/ PassIterators(t)
        \/ TSGetAnd(t)
        \/ TSEmplaceAnd(t)
        \/ FillStep(t)
        \/ ForEachStep(t)
        \/ AccessIndexStep(t)
        \/ PassIteratorsRead(t)
        \/ PassIteratorsWrite(t)
        \/ TSCheckStep(t)
        \/ TSGetStep(t)
        \/ TSDestructStep(t)
        \/ TSEmplaceStep(t)
        \/ TSFuncStep(t)
        \/ Reenter(t)
        \/ ReenterLock(t)
        \/ Return(t)

SpecReenter == InitLocks /\ [][NextReenter]_vars

\* ------------------------------------------------------------ properties
Alive(v) == status[v] = "alive"

\* The alternatives T for which get<T>() on v returns a reference.
GetSucceeds(v) == {T \in PackTypes : get(Cur, v, T).exc = "none"}

\* C1 (tag invariant): after any sequence of constructions, assignments and
\* emplaces, throwing ones included, a union either reports is_valid() false
\* with index() equal to the number of alternatives, or has index() below that
\* number and get<T>() succeeds for exactly one T, the alternative at index().
C1_TagInvariant ==
    /\ \A v \in Variants : Alive(v) =>
         \/ ~is_valid(Cur, v) /\ type[v] = Len(types)
         \/ /\ is_valid(Cur, v)
            /\ type[v] < Len(types)
            /\ GetSucceeds(v) = {TypeAt(type[v])}
    /\ (last.op = "Get" /\ last.out = "none") => last.t = type[last.v]

C1_Witness ==
    /\ Alive("a") /\ threw /\ type["a"] < Len(types)
    /\ last.op = "Get" /\ last.out = "none"

\* C2 (live-object invariant): when the tag is the sentinel the buffer holds no
\* live object; when the tag names an alternative the buffer holds exactly one
\* live object, of that alternative; and every constructor, destructor and
\* accessor the operations run is the one of the object the buffer holds.
C2_LiveObject ==
    /\ \A v \in Variants : Alive(v) =>
         /\ type[v] <= invalid_index
         /\ type[v] = invalid_index => ~buffer[v].live
         /\ type[v] < invalid_index => buffer[v].live /\ buffer[v].ty = type[v]
    /\ \A i \in 1..Len(last.calls) : last.calls[i].ok

C2_Witness ==
    /\ Alive("a") /\ type["a"] = 2 /\ buffer["a"].live /\ buffer["a"].ty = 2
    /\ last.op = "Assign" /\ Len(last.calls) = 2

\* C3 (destruction exactly once): no payload object is destroyed twice, none is
\* destroyed while not alive, and none with a destructor of its own is left
\* alive when its storage is reused or its union is destroyed.
C3_DestroyedOnce ==
    /\ ~leaked
    /\ \A v \in Variants :
         /\ buffer[v].dtors <= 1
         /\ buffer[v].live => buffer[v].dtors = 0
         /\ (status[v] = "destroyed" /\ buffer[v].obj
               /\ ~is_fundamental(TypeAt(buffer[v].ty)))
              => ~buffer[v].live /\ buffer[v].dtors = 1
    /\ \A i \in 1..Len(last.calls) :
         last.calls[i].k = "dtor" => last.calls[i].ok

C3_Witness ==
    /\ status["a"] = "destroyed" /\ buffer["a"].obj
    /\ ~is_fundamental(TypeAt(buffer["a"].ty))
    /\ buffer["a"].dtors = 1
    /\ last.op = "Destroy" /\ Len(last.calls) = 1

\* C4 (construction failure): when the constructor run by an emplace or a value
\* assignment throws, the exception leaves the operation, the union is invalid
\* (is_valid() false, index() the number of alternatives, holds_active_type
\* false and get throwing bad_variant_access for every alternative), and the
\* payload active before is destroyed.
C4_FailedConstruction ==
    (last.op \in {"Emplace", "Assign"} /\ last.throws) =>
        /\ last.out = "ctor"
        /\ ~is_valid(Cur, last.v)
        /\ type[last.v] = Len(types)
        /\ \A U \in PackTypes :
             /\ ~holds_active_type(Cur, last.v, U)
             /\ get(Cur, last.v, U).exc = "bad_variant_access"
        /\ ~buffer[last.v].live
        /\ ~leaked

C4_Witness ==
    /\ last.op = "Emplace" /\ last.throws /\ last.out = "ctor"
    /\ buffer["a"].obj /\ buffer["a"].dtors = 1
    /\ ~is_fundamental(TypeAt(buffer["a"].ty))

\* C5 (round trip): after an emplace<T>(v) or an assignment of a T value v that
\* did not throw, get<T>() returns v and index() is the position of T in the
\* pack, whatever the union held before.
C5_RoundTrip ==
    (last.op \in {"Emplace", "Assign"} /\ last.out = "none") =>
        LET r == get(Cur, last.v, TypeAt(last.t))
        IN  /\ r.exc = "none"
            /\ r.vals = {last.arg}
            /\ type[last.v] = last.t
            /\ types[type[last.v] + 1] = TypeAt(last.t)

C5_Witness ==
    /\ last.op = "Emplace" /\ last.out = "none" /\ last.arg = 1 /\ last.t = 1
    /\ threw /\ Len(last.calls) = 2

\* C6 (wrong-type access): on a valid union holding T, get<U>() for every other
\* alternative U throws bad_variant_access, the throwing call changes neither
\* the tag nor the payload, and get<T>() gives the stored value.
C6_WrongTypeGet ==
    /\ [](\A v \in Variants : (Alive(v) /\ is_valid(Cur, v)) =>
            /\ \A U \in PackTypes \ {TypeAt(type[v])} :
                 get(Cur, v, U).exc = "bad_variant_access"
            /\ get(Cur, v, TypeAt(type[v])).exc = "none"
            /\ get(Cur, v, TypeAt(type[v])).vals = {buffer[v].val})
    /\ [][(last'.op = "Get" /\ last'.out = "bad_variant_access") =>
            /\ type' = type
            /\ buffer' = buffer
            /\ status' = status]_vars

C6_Witness ==
    /\ last.op = "Get" /\ last.out = "bad_variant_access"
    /\ is_valid(Cur, "a") /\ buffer["a"].live /\ buffer["a"].val = 1

\* C7 (recovery from invalid): on an invalid union a successful value
\* assignment or emplace runs no destructor and leaves the union valid with the
\* new alternative active, and destroying an invalid union runs no destructor,
\* under the linear and the constant policy alike.
C7_RecoveryFromInvalid ==
    [][(Alive(last'.v) /\ type[last'.v] = invalid_index
          /\ last'.op \in {"Assign", "Emplace", "Destroy"}) =>
         /\ \A i \in 1..Len(last'.calls) : last'.calls[i].k # "dtor"
         /\ last'.out \in {"none", "ctor"}
         /\ (last'.op # "Destroy" /\ ~last'.throws) =>
              /\ last'.out = "none"
              /\ type'[last'.v] = last'.t
              /\ type'[last'.v] # invalid_index
              /\ buffer'[last'.v].live
              /\ buffer'[last'.v].ty = last'.t
         /\ last'.op = "Destroy" => last'.out = "none" /\ last'.calls = <<>>]_vars

C7_Witness ==
    /\ can_be_invalid /\ threw /\ destructor_complexity = "constant_complexity"
    /\ last.op = "Emplace" /\ last.out = "none" /\ Len(last.calls) = 1
    /\ buffer["a"].live

C9_PrintDispatch ==
    /\ [][last'.op = "print" =>
            /\ type' = type /\ buffer' = buffer /\ status' = status
            /\ type["a"] < invalid_index =>
                 /\ last'.out = "none"
                 /\ last'.calls = <<Call("print", type["a"], "a", TRUE)>>
                 /\ last'.ret = <<TypeAt(type["a"]), buffer["a"].val>>
            /\ type["a"] = invalid_index =>
                 /\ last'.out = "invalid_variant_access"
                 /\ last'.calls = <<>>]_vars
    /\ [](~can_be_invalid =>
            /\ type["a"] < invalid_index
            /\ print(Cur, "a") = print_dispatch(Cur, "a")
            /\ last.out # "out_of_range")

C9_Witness ==
    /\ last.op = "print" /\ last.out = "invalid_variant_access"
    /\ Alive("a") /\ type["a"] = invalid_index

\* C10 (copy semantics): copy construction or copy assignment from a valid
\* source whose copy constructor does not throw leaves the target with the
\* source's tag and a payload copy-constructed from the source's, and the
\* source unchanged; from an invalid source it leaves the target invalid and
\* runs no payload constructor.
C10_CopySemantics ==
    [][(last'.op \in {"CopyConstruct", "CopyAssign"} /\ ~last'.throws
          /\ Alive(last'.arg)
          /\ (type[last'.arg] < invalid_index => buffer[last'.arg].live)) =>
         LET v   == last'.v
             src == last'.arg
         IN  IF type[src] < invalid_index
             THEN /\ last'.out = "none"
                  /\ type'[v] = type[src]
                  /\ buffer'[v].live
                  /\ buffer'[v].ty = type[src]
                  /\ buffer'[v].val = buffer[src].val
                  /\ type'[src] = type[src]
                  /\ buffer'[src] = buffer[src]
             ELSE /\ type'[v] = invalid_index
                  /\ \A i \in 1..Len(last'.calls) :
                       last'.calls[i].k \notin {"ctor", "copy", "move"}]_vars

\* C11 (failed assignment): when the payload constructor run by a copy or move
\* assignment between two unions throws, the exception propagates and the
\* target is left invalid (tag n, is_valid() false); the target never keeps a
\* tag below n while its buffer holds no live object.
C11_FailedAssignment ==
    (last.op \in {"CopyAssign", "MoveAssign"} /\ last.throws /\ last.v # last.arg) =>
        /\ last.out = "ctor"
        /\ type[last.v] = invalid_index
        /\ ~is_valid(Cur, last.v)
        /\ type[last.v] < invalid_index => buffer[last.v].live

\* Every element of the array has the same value.
Uniform(a) == \A i, j \in 1..Len(a) : a[i] = a[j]

\* C18 (array bounds): operator[](i) returns the element at position i for
\* every i below nb_elem and throws std::out_of_range for every i from nb_elem
\* on, for every nb_elem > 0, with and without the lock, and leaves the array
\* contents unchanged.
C18_ArrayBounds ==
    /\ [](\A n \in 1..NbElem, i \in 0..(NbElem + 1) :
            array_subscript(n, i) = IF i < n THEN "ok" ELSE "out_of_range")
    /\ [][\A t \in Threads :
            (pc[t].op = "subscript" /\ pc[t].at = "body" /\ pc'[t].at = "exit") =>
               /\ arr' = arr
               /\ pc[t].arg < NbElem =>
                    pc'[t].out = "none" /\ pc'[t].ret = pc[t].arg
               /\ pc[t].arg >= NbElem => pc'[t].out = "out_of_range"]_vars

C18_Witness ==
    /\ pc["t1"].op = "subscript" /\ pc["t1"].at = "exit"
    /\ pc["t1"].arg = NbElem /\ pc["t1"].out = "out_of_range"
    /\ pc["t2"].at = "ref" /\ pc["t2"].ret = NbElem - 1

\* C19 (whole-array operations are atomic): with threads calling fill and
\* for_each on one thread-safe array, every traversal by for_each observes all
\* elements equal, and whenever no operation holds the lock the array is
\* uniform, never a mixture.
C19_UniformFill ==
    /\ \A t \in Threads : pc[t].op = "for_each" => Uniform(pc[t].seen)
    /\ \A x \in Arrays : mutex[x] = "free" => Uniform(arr[x])

C19_Witness ==
    /\ pc["t1"].op = "for_each" /\ pc["t1"].at = "exit"
    /\ pc["t1"].obj = "x" /\ pc["t1"].seen = [i \in 1..NbElem |-> 1]
    /\ pc["t2"].op = "fill" /\ pc["t2"].obj = "y" /\ pc["t2"].i = 1

\* C20 (consistent snapshot against single-element writers): while a for_each
\* or access_index of one thread runs under the lock of a thread-safe array, no
\* step of another thread changes an element of that array.
C20_Snapshot ==
    [][\A t \in Threads :
         (pc[t].op \in {"for_each", "access_index"} /\ pc[t].at \in {"body", "exit"}
            /\ pc'[t] = pc[t])
           => arr'[pc[t].obj] = arr[pc[t].obj]]_vars

\* C16 (destruction exactly once through the wrapper): operator=(T&&),
\* try_emplace and emplace_and of the thread-safe variant destroy the payload
\* they replace exactly once on every exit path, and the wrapper's destructor
\* destroys the final payload exactly once: no destructor runs on a payload
\* that is not alive, none runs twice, and no payload is leaked.
C16_WrapperDestroyedOnce ==
    /\ ~leaked
    /\ \A t \in Threads :
         (pc[t].op \in {"assign", "try_emplace", "emplace_and"}
            /\ ~is_fundamental(TypeAt(buffer[pc[t].obj].ty))) =>
             /\ buffer[pc[t].obj].dtors <= 1
             /\ buffer[pc[t].obj].live => buffer[pc[t].obj].dtors = 0
    /\ \A w \in Variants :
         (status[w] = "destroyed" /\ buffer[w].obj
            /\ ~is_fundamental(TypeAt(buffer[w].ty)))
           => ~buffer[w].live /\ buffer[w].dtors = 1
    /\ \A i \in 1..Len(last.calls) :
         (last.calls[i].k = "dtor" /\ ~is_fundamental(TypeAt(last.calls[i].t)))
           => last.calls[i].ok

C13_LockRelease ==
    /\ [](\A t \in Threads :
            /\ pc[t].at \in {"idle", "ref"} =>
                  \A m \in DOMAIN mutex : mutex[m] # t
            /\ \A m \in DOMAIN mutex :
                  mutex[m] = t => /\ pc[t].at \in {"body", "exit"}
                                  /\ m \in {pc[t].obj, pc[t].other})
    /\ [][\A t \in Threads :
            (pc[t].at = "exit" /\ pc'[t].at # "exit") =>
                /\ mutex[pc[t].obj] = t
                /\ mutex'[pc[t].obj] = "free"
                /\ lockable(mutex', {pc[t].obj})]_vars

C13_Witness ==
    /\ pc["t1"].at = "idle" /\ pc["t1"].out = "callback"
    /\ pc["t2"].at = "body" /\ pc["t2"].op = "get_and" /\ pc["t2"].i = 1
    /\ mutex["a"] = "t2"

\* C12 (mutual exclusion on the thread-safe variant): a thread that is inside
\* the tag or payload of a wrapper, through a locking operation or through the
\* reference get_underlying_variant() gave it, owns the wrapper's mutex, so no
\* two threads are inside the same wrapper at the same time.
C12_MutualExclusion ==
    /\ \A t \in Threads :
         pc[t].at \in {"body", "exit", "bare"} => mutex[pc[t].obj] = t
    /\ \A t, u \in Threads :
         (t # u /\ pc[t].at \in {"body", "exit", "bare"}
                /\ pc[u].at \in {"body", "exit", "bare"})
           => pc[t].obj # pc[u].obj

OldOf(t, c) ==
    IF c = pc[t].obj THEN SubSeq(pc[t].seen, 1, NbElem)
    ELSE SubSeq(pc[t].seen, NbElem + 1, 2 * NbElem)

\* C21 (swap exchanges contents element-wise): when a.swap(b) returns, a holds
\* what b held when the swap began and b what a held; while it runs the
\* elements already passed are exchanged and the others untouched; a second
\* swap that starts from what the first one left restores both arrays; and a
\* fill or for_each on either array never runs while a swap is inside it, a
\* traversal reading exactly the elements the array holds.
C21_Swap ==
    \A t \in Threads :
        LET x == pc[t].obj
            o == pc[t].other
        IN  /\ (pc[t].op = "swap" /\ pc[t].at = "exit") =>
                  /\ arr[x] = OldOf(t, o)
                  /\ arr[o] = OldOf(t, x)
            /\ (pc[t].op = "swap" /\ pc[t].at = "body" /\ pc[t].i > 0) =>
                  \A j \in 1..NbElem :
                      /\ arr[x][j] = IF j <= pc[t].i THEN OldOf(t, o)[j]
                                     ELSE OldOf(t, x)[j]
                      /\ arr[o][j] = IF j <= pc[t].i THEN OldOf(t, x)[j]
                                     ELSE OldOf(t, o)[j]
            /\ \A u \in Threads \ {t} :
                  (pc[t].op = "swap" /\ pc[t].at = "done"
                     /\ pc[u].op = "swap" /\ pc[u].at = "exit"
                     /\ OldOf(u, x) = OldOf(t, o) /\ OldOf(u, o) = OldOf(t, x))
                    => arr[x] = OldOf(t, x) /\ arr[o] = OldOf(t, o)
            /\ (pc[t].op \in {"fill", "for_each"} /\ pc[t].at \in {"body", "exit"}) =>
                  /\ \A u \in Threads \ {t} :
                        (pc[u].op = "swap" /\ pc[u].at \in {"body", "exit"})
                          => x \notin {pc[u].obj, pc[u].other}
                  /\ pc[t].seen = SubSeq(arr[x], 1, Len(pc[t].seen))
                  /\ (pc[t].op = "fill" /\ pc[t].at = "exit") =>
                        \A j \in 1..NbElem : arr[x][j] = pc[t].val

C21_Witness ==
    /\ pc["t1"].op = "swap" /\ pc["t1"].at = "done" /\ pc["t1"].obj = "x"
    /\ pc["t2"].op = "swap" /\ pc["t2"].at = "exit" /\ pc["t2"].obj = "y"
    /\ OldOf("t2", "x") = OldOf("t1", "y") /\ OldOf("t2", "x") # OldOf("t1", "x")
    /\ arr["x"] = OldOf("t1", "x") /\ arr["x"][1] # arr["x"][2]

\* C22 (sub-view bounds): to_view(offset, size) gives a view of size elements
\* starting at offset only when offset + size <= N, throws std::out_of_range
\* whenever offset >= N or offset + size > N (sums taken without wrapping), and
\* no view it gives covers a position outside 0..N-1.
C22_ToViewBounds ==
    pc[Main].op = "to_view" =>
        LET offset == pc[Main].arg
            size   == pc[Main].val
        IN  /\ pc[Main].out \in {"none", "out_of_range"}
            /\ pc[Main].out = "none" =>
                  /\ offset + size <= NbElem
                  /\ pc[Main].i = offset /\ pc[Main].ret = size
                  /\ \A k \in pc[Main].i..(pc[Main].i + pc[Main].ret - 1) : k < NbElem
            /\ (offset >= NbElem \/ offset + size > NbElem) =>
                  pc[Main].out = "out_of_range"

\* C23 (is_valid() of the variant of variant.h): is_valid() answers true
\* exactly when a payload is constructed, the tag being different from the
\* sentinel, and false exactly in the invalid state: false after an emplace
\* whose constructor threw, true after a construction or assignment that
\* succeeded.
C23_VariantIsValid ==
    /\ last.op = "is_valid" =>
          (last.ret <=> type[last.v] # max_active_index + 1)
    /\ \A v \in Variants :
          status[v] = "alive" =>
              /\ (last.op \in {"emplace", "operator="} /\ last.v = v /\ last.throws)
                    => ~variant_is_valid(Cur, v)
              /\ (last.op \in {"variant", "emplace", "operator="} /\ last.v = v
                     /\ ~last.throws)
                    => variant_is_valid(Cur, v)

ReadOnlyOps == {"Get", "Index", "IsValid", "HoldsActiveType", "print"}

\* C25 (read-only operations have no side effects): holds_active_type<T>()
\* answers true exactly when the tag is T's position in the pack; and
\* holds_active_type, index(), is_valid(), get<T>() (returning or throwing) and
\* print change neither the tag nor the payload and run no payload
\* constructor or destructor, in every state, the invalid one included.
C25_ReadOnly ==
    [][last'.op \in ReadOnlyOps =>
          /\ type' = type /\ buffer' = buffer /\ status' = status
          /\ leaked' = leaked /\ threw' = threw
          /\ \A i \in 1..Len(last'.calls) :
                last'.calls[i].k \notin {"ctor", "copy", "move", "dtor"}
          /\ last'.op = "HoldsActiveType" =>
                (last'.ret <=> type[last'.v] = last'.t)
          /\ last'.op = "Index" => last'.ret = type[last'.v]
          /\ last'.op = "IsValid" => (last'.ret <=> type[last'.v] # invalid_index)]_vars

C25_Witness ==
    /\ last.op = "HoldsActiveType" /\ last.ret = FALSE
    /\ type["a"] = invalid_index /\ status["a"] = "alive"

\* C26 (the two destruction algorithms are interchangeable): on every union
\* with a valid tag t, impl_destruct_active_linear and
\* impl_destruct_active_constant do the same thing: one call of the destructor
\* of the t-th type on the buffer, none of another type, tag unchanged; so the
\* algorithm the policy selects makes no difference to destructor calls or tags.
C26_Interchangeable ==
    \A v \in Variants :
        (status[v] = "alive" /\ type[v] < invalid_index) =>
            LET L == impl_destruct_active_linear(Cur, v, 0)
                K == impl_destruct_active_constant(Cur, v)
            IN  /\ L = K
                /\ Len(L.calls) = 1
                /\ L.calls[1].k = "dtor" /\ L.calls[1].t = type[v]
                /\ L.calls[1].v = v
                /\ L.type = type /\ L.exc = "none"
                /\ impl_destruct_dispatch(Cur, v) = L

C26_Witness ==
    /\ status["a"] = "alive" /\ type["a"] = 2 /\ buffer["a"].live
    /\ policy = "ConstantComplexityDestruct"
    /\ last.op = "Emplace" /\ Len(last.calls) = 2
    /\ last.calls[1].k = "dtor" /\ last.calls[1].t = 1

\* C27 (try_emplace outcome): try_emplace<T>(args...) lets no exception
\* escape; it returns true when T was constructed, T then being active, and
\* false when T's constructor threw, the union then being invalid; the caller
\* owns no mutex once it has returned.
C27_TryEmplace ==
    \A t \in Threads :
        LET w == pc[t].obj
        IN  /\ (pc[t].op = "try_emplace" /\ pc[t].at = "exit") =>
                  /\ pc[t].out = "none"
                  /\ pc[t].ret \in {0, 1}
                  /\ pc[t].ret = 1 <=>
                        (type[w] = pc[t].arg /\ buffer[w].live
                           /\ buffer[w].ty = pc[t].arg)
                  /\ pc[t].ret = 0 <=> type[w] = invalid_index
            /\ pc[t].at = "idle" => \A m \in DOMAIN mutex : mutex[m] # t

\* C28 (access_index reports range errors as a value): access_index(index,
\* func) runs with the array's mutex owned by the caller; for index < N it
\* calls func once, on the element at that position, and returns true unless
\* func throws; for index >= N it returns false with no call of func and no
\* exception; its own steps change no element.
C28_AccessIndex ==
    /\ [](\A t \in Threads :
            (pc[t].op = "access_index" /\ pc[t].at \in {"body", "exit"}) =>
                /\ mutex[pc[t].obj] = t
                /\ pc[t].at = "exit" =>
                      /\ pc[t].out \in {"none", "callback"}
                      /\ pc[t].arg >= NbElem =>
                            /\ pc[t].out = "none" /\ pc[t].ret = 0
                            /\ pc[t].seen = <<>>
                      /\ (pc[t].arg < NbElem /\ pc[t].out = "none") =>
                            pc[t].ret = 1 /\ Len(pc[t].seen) = 1
                      /\ pc[t].out = "callback" => pc[t].arg < NbElem)
    /\ [][\A t \in Threads :
            (pc[t].op = "access_index" /\ pc[t].at = "body" /\ pc'[t].at = "exit") =>
                /\ arr' = arr
                /\ pc'[t].ret = 1 => pc'[t].seen = <<arr[pc[t].obj][pc[t].arg + 1]>>]_vars

C28_Witness ==
    /\ pc["t1"].op = "access_index" /\ pc["t1"].at = "exit"
    /\ pc["t1"].arg = NbElem /\ pc["t1"].ret = 0
    /\ pc["t2"].at = "idle" /\ pc["t2"].out = "callback"

\* C30 (const iteration covers the whole array): cbegin() designates element
\* 0 and cend() one past element N-1, as begin() and end() do, so a loop from
\* cbegin() to cend(), like one from begin() to end(), visits the N elements in
\* index order.
C30_ConstIteration ==
    /\ (pc[Main].op \in {"begin", "cbegin"} /\ pc[Main].at = "iter") =>
          /\ pc[Main].i = Len(pc[Main].seen)
          /\ pc[Main].ret = NbElem
          /\ pc[Main].seen = SubSeq(arr["x"], 1, pc[Main].i)
    /\ (pc[Main].op \in {"begin", "cbegin"} /\ pc[Main].at = "idle") =>
          pc[Main].seen = arr["x"]

\* C31: operator<< on a thread-safe array owns the array's mutex for as long as
\* it reads the elements, so what it writes is never part one content of the
\* array and part another.  The array starts uniform and only fill and for_each
\* write it, one value each, under the lock: every content it has between two
\* operations is uniform, and so must be every printed one.
C31_PrintUnderLock ==
    \A t \in Threads :
        pc[t].op = "operator<<" =>
            /\ pc[t].at = "print" => mutex[pc[t].obj] = t
            /\ Uniform(pc[t].seen)

\* The destructor thunks an operation ran, out of the calls it made.
DtorCalls(calls) == {i \in 1..Len(calls) : calls[i].k = "dtor"}

\* C32 (variant of variant.h, a pack with a non-fundamental type): operator=
\* and emplace<T> on a valid variant run the destructor of the active object
\* exactly once, before they construct the new one, and ~variant() runs it
\* exactly once (checked where that object is not of a fundamental type, whose
\* destructor does nothing); on an invalid variant they run no destructor and raise no
\* error of their own (only the new object's constructor may throw).
C32_OldPayloadDestroyed ==
    [][\A v \in Variants :
         (/\ status[v] = "alive"
          /\ count_non_fundamental > 0
          /\ last'.v = v
          /\ last'.op \in {"emplace", "operator=", "~variant"}) =>
            LET d == DtorCalls(last'.calls)
            IN  /\ last'.out \in {"none", "ctor"}
                /\ IF type[v] # max_active_index + 1
                   THEN HoldsLiveNonTrivial(buffer[v]) =>
                          /\ d = {1}
                          /\ last'.calls[1] = Call("dtor", type[v], v, TRUE)
                          /\ leaked' = leaked
                   ELSE d = {}]_vars

\* A thread whose callback is at the lock of the container that called it.
Reentering(t) == pc[t].at = "reenter"

C34_PassIterators ==
    /\ [](\A t \in Threads :
            (pc[t].op = "pass_iterators" /\ pc[t].at \in {"body", "exit"}) =>
                /\ mutex[pc[t].obj] = t
                /\ pc[t].arg = 0 /\ pc[t].val = NbElem
                /\ pc[t].at = "exit" =>
                      /\ is_sorted(arr[pc[t].obj])
                      /\ is_permutation(arr[pc[t].obj], pc[t].seen))
    /\ [][\A t \in Threads :
            (pc[t].op = "pass_iterators" /\ pc[t].at \in {"body", "exit"}
               /\ pc'[t] = pc[t])
              => arr'[pc[t].obj] = arr[pc[t].obj]]_vars

\* C35: copy-assigning a valid union to itself (u = u) leaves it valid, with
\* the same active type and an equal value, and runs no copy constructor on a
\* payload whose destructor has already run (checked where the payload is of
\* class type, whose destructor does something).
C35_SelfCopyAssign ==
    [][\A v \in Variants :
         (/\ last'.op = "CopyAssign" /\ last'.v = v /\ last'.arg = v
          /\ Alive(v) /\ type[v] < invalid_index
          /\ HoldsLiveNonTrivial(buffer[v])) =>
            /\ last'.out = "none"
            /\ type'[v] = type[v]
            /\ buffer'[v].live
            /\ buffer'[v].ty = buffer[v].ty
            /\ buffer'[v].val = buffer[v].val
            /\ \A i \in 1..Len(last'.calls) :
                 last'.calls[i].k = "copy" => last'.calls[i].ok]_vars

\* C36: a move construction or move assignment whose source is valid and
\* holds an object of class type leaves
\* the target with the source's tag and a payload move-constructed from the
\* source's live payload; the payload the target held before an assignment is
\* destroyed exactly once and no destructor runs on a dead object; the source
\* keeps its tag and a live object, not yet destroyed; nothing is leaked.  The
\* operation that next destroys or replaces the source's object destroys it
\* exactly once.
C36_MoveOwnership ==
    [][/\ \A v, src \in Variants :
            (/\ last'.op \in {"MoveConstruct", "MoveAssign"}
             /\ last'.v = v /\ last'.arg = src /\ ~last'.throws
             /\ Alive(src) /\ type[src] < invalid_index
             /\ HoldsLiveNonTrivial(buffer[src])) =>
               LET d == DtorCalls(last'.calls)
               IN  /\ last'.out = "none"
                   /\ type'[v] = type[src]
                   /\ buffer'[v].live
                   /\ buffer'[v].ty = type[src]
                   /\ buffer'[v].val = buffer[src].val
                   /\ \A i \in 1..Len(last'.calls) : last'.calls[i].ok
                   /\ (last'.op = "MoveAssign" /\ HoldsLiveNonTrivial(buffer[v]))
                         => d = {1}
                   /\ type'[src] = type[src]
                   /\ buffer'[src].live
                   /\ buffer'[src].dtors = 0
                   /\ leaked' = leaked
       /\ \A src \in Variants :
            (/\ last.op \in {"MoveConstruct", "MoveAssign"}
             /\ last.arg = src /\ last.v # src /\ last.out = "none"
             /\ HoldsLiveNonTrivial(buffer[src])
             /\ last'.op \in {"Destroy", "Assign", "Emplace"} /\ last'.v = src) =>
               /\ DtorCalls(last'.calls) = {1}
               /\ last'.calls[1].ok
               /\ leaked' = leaked]_vars

\* C37: operator<< on a view of size s reads the elements at positions
\* 0..s-1 of the view and no other, each once, whatever s is, the empty view
\* included, for which it reads nothing.
C37_ViewPrint ==
    pc[Main].op = "view<<" =>
        /\ \A k \in 1..Len(pc[Main].seen) :
             0 <= pc[Main].seen[k] /\ pc[Main].seen[k] < pc[Main].val
        /\ pc[Main].at = "idle" =>
             pc[Main].seen = [k \in 1..pc[Main].val |-> k - 1]

====
